---- MODULE Spec2Model ----
(***************************************************************************)
(* Mesh transport and routing layer of ble_agent.                          *)
(*                                                                         *)
(*   Spec      the simulated MeshNetwork of src/mesh.py: the agent table,  *)
(*             the message counter and the delayed delivery tasks that     *)
(*             send() creates, one action per method and one per task.     *)
(*   FairSpec  Spec with the event loop's scheduling: time passes and a    *)
(*             delivery task whose sleep has elapsed is resumed.           *)
(*   SpecAgent Spec with every message built by Agent.send_message of    *)
(*             src/agent.py, which stamps the clock into the message.      *)
(*   SpecInFlight  Spec from the moment a message from A to B, both        *)
(*             registered with h1, has been accepted and is in flight.     *)
(*   SpecBLE   the BLEMesh instances of one process (src/ble_mesh.py):     *)
(*             construction, start, callback registration and              *)
(*             send_message with its in-process route.                     *)
(*   SpecFrame one message on one link: the sender's chunk loop and the    *)
(*             receiver's notification handler, for BLEMesh,               *)
(*             BLECommunicator and SimpleBLEMesh, over messages drawn      *)
(*             from a bounded set.                                         *)
(*   SpecConn  the connections of one started instance (BLEMesh,           *)
(*             SimpleBLEMesh or BLECommunicator): the outbound queue       *)
(*             processor, discovery, connection attempts and stop(), one   *)
(*             action per stretch of code between two awaits.              *)
(*   FairSpecConn  SpecConn with the queue processor resumed whenever its  *)
(*             queue holds an item; the transport may stall for ever.      *)
(*   SpecEither  the behaviours of Spec and those of SpecConn, for the     *)
(*             properties that speak of both transports.                   *)
(*   SpecWire  the chunks written on the connections of one instance that  *)
(*             is connected to its peers, for the send_message calls of    *)
(*             concurrent callers (BLEMesh, SimpleBLEMesh).                *)
(*   SpecTables  the tables of in-process agents of four BLEMesh objects   *)
(*             that are constructed and started in any order.              *)
(***************************************************************************)
EXTENDS Integers, Sequences, FiniteSets, TLC

(***************************************************************************)
(* Bounds of the model.                                                    *)
(***************************************************************************)
\* accepted send() calls explored per behaviour (bounds message_counter)
MaxSends == 2
\* last instant of the event loop's clock that is explored, in clock units
MaxTime == 3
\* send_message calls explored per behaviour of the BLEMesh instances
MaxBleSends == 2

(***************************************************************************)
(* MeshNetwork (src/mesh.py)                                               *)
(***************************************************************************)
\* random.uniform(0.1, 0.5) in clock units of 250 ms, rounded up: a sleep of
\* 0.1 s ends at the first tick after it began, one of 0.5 s at the second
LatencyMin == 1
LatencyMax == 2
Latencies == LatencyMin..LatencyMax

\* ids under which agents register
AgentIds == {"A", "B"}
\* the callbacks handed to register_agent; h2 is a callback that raises
Handlers == {"h1", "h2"}
RaisingHandlers == {"h2"}
\* the (sender, message) pairs handed to send: a registrable sender and one
\* that never registers, with different message dictionaries
SendInputs == {[sender |-> "A", message |-> [type |-> "chat", content |-> "hi"]],
               [sender |-> "X", message |-> [type |-> "ping"]]}

VARIABLES
    agents,            \* MeshNetwork.agents: agent id -> callback
    message_counter,   \* MeshNetwork.message_counter
    tasks,             \* the _deliver_message tasks created and not yet run
    now,               \* the event loop's clock, asyncio.get_event_loop().time()
    calls,             \* the callback invocations made so far, in order
    errors,            \* message ids whose delivery printed "Error delivering"
    sent,              \* history: the accepted sends, in the order of the calls
    lastReg,           \* history: the last registry call that changed each id
    lastOp             \* the call or step that led to this state, and how it ended

VARIABLES
    ble_server_clients, \* _ble_server_clients: the BLEMesh objects constructed
    started,            \* the instances whose start() has run
    local_agents,       \* BLEMesh._local_agents: the ids each instance routes in-process
    callbacks,          \* BLEMesh.callbacks: message type -> callback
    message_queue,      \* BLEMesh.message_queue: (target_id, envelope) pairs
    ble_calls,          \* the callback invocations made so far, in order
    ble_errors,         \* the errors printed by the except clauses, in order
    ble_sends           \* history: the number of send_message calls made

VARIABLES
    frame              \* one message on one link: what is sent and what arrives

VARIABLES
    mesh_class,        \* the class of the instance whose connections are followed
    connected_devices, \* connected_devices: peer id -> client
    clients,           \* the BleakClient objects created so far: peer, is_connected
    attempts,          \* the calls of _connect_to_peer / _connect_to_device in progress
    proc,              \* the _process_message_queue task: where it is, what it holds
    scanning,          \* BLEMesh.scanning / SimpleBLEMesh.running
    scanner_active,    \* a scanner of the scan loop is delivering advertisements
    stop_pc,           \* stop(): not called, in its loop, returned, raised
    stop_items,        \* stop(): the (peer, client) pairs its loop still has to visit, in order
    detections,        \* history: the number of advertisements delivered
    comm,              \* BLECommunicator: client, connected, target_device
    fates              \* history: how each envelope taken for sending ended

VARIABLES
    wire               \* the envelopes handed to one instance and the chunks
                       \* written on each of its connections, in write order

meshVars == <<agents, message_counter, tasks, calls, errors, sent, lastReg>>
bleVars == <<ble_server_clients, started, local_agents, callbacks, message_queue,
             ble_calls, ble_errors, ble_sends>>
connVars == <<wire, mesh_class, connected_devices, clients, attempts, proc, scanning,
              scanner_active, stop_pc, stop_items, detections, comm, fates>>
vars == <<agents, message_counter, tasks, now, calls, errors, sent, lastReg, lastOp,
          ble_server_clients, started, local_agents, callbacks, message_queue,
          ble_calls, ble_errors, ble_sends, frame, wire,
          mesh_class, connected_devices, clients, attempts, proc, scanning,
          scanner_active, stop_pc, stop_items, detections, comm, fates>>

\* dict.get / "in": the callback registered under an id, None when absent
None == "None"
IsRegistered(agent_id) == agent_id \in DOMAIN agents
GetCallback(agent_id) == IF agent_id \in DOMAIN agents THEN agents[agent_id] ELSE None

\* (mutant) a copy that keeps only the metadata
MessageCopyMetaOnly(message, message_id, timestamp) ==
    [message_id |-> message_id, timestamp |-> timestamp]

\* message.copy() with message_id and timestamp set on the copy
MessageCopy(message, message_id, timestamp) ==
    [k \in DOMAIN message \cup {"message_id", "timestamp"} |->
        IF k = "message_id" THEN message_id
        ELSE IF k = "timestamp" THEN timestamp
        ELSE message[k]]

MeshInit ==
    /\ agents = << >>
    /\ message_counter = 0
    /\ tasks = {}
    /\ now = 0
    /\ calls = << >>
    /\ errors = {}
    /\ sent = << >>
    /\ lastReg = [a \in AgentIds |-> "none"]
    /\ lastOp = [op |-> "init", result |-> "ok"]

\* (mutant) registration without the duplicate check: the callback is replaced
RegisterAgentOverwrites(agent_id, callback) ==
    /\ agents' = [a \in DOMAIN agents \cup {agent_id} |->
                     IF a = agent_id THEN callback ELSE agents[a]]
    /\ lastReg' = [lastReg EXCEPT ![agent_id] = "register"]
    /\ lastOp' = [op |-> "register", result |-> "ok"]

\* register_agent(agent_id, callback), lines 35-37
RegisterAgentEffect(agent_id, callback) ==
    IF IsRegistered(agent_id)
    THEN /\ lastOp' = [op |-> "register", result |-> "ValueError"]
         /\ UNCHANGED <<agents, lastReg>>
    ELSE /\ agents' = [a \in DOMAIN agents \cup {agent_id} |->
                          IF a = agent_id THEN callback ELSE agents[a]]
         /\ lastReg' = [lastReg EXCEPT ![agent_id] = "register"]
         /\ lastOp' = [op |-> "register", result |-> "ok"]

\* register_agent as a step of the mesh
register_agent(agent_id, callback) ==
    /\ RegisterAgentEffect(agent_id, callback)
    /\ UNCHANGED <<message_counter, tasks, now, calls, errors, sent>>
    /\ UNCHANGED <<bleVars, frame, connVars>>

\* (mutant) unregistration that returns without deleting the entry
UnregisterAgentKeeps(agent_id) ==
    /\ lastReg' = [lastReg EXCEPT ![agent_id] =
                      IF IsRegistered(agent_id) THEN "unregister" ELSE @]
    /\ UNCHANGED agents

\* unregister_agent(agent_id), lines 42-43
UnregisterAgentEffect(agent_id) ==
    IF IsRegistered(agent_id)
    THEN /\ agents' = [a \in DOMAIN agents \ {agent_id} |-> agents[a]]
         /\ lastReg' = [lastReg EXCEPT ![agent_id] = "unregister"]
    ELSE UNCHANGED <<agents, lastReg>>

\* unregister_agent as a step of the mesh
unregister_agent(agent_id) ==
    /\ UnregisterAgentEffect(agent_id)
    /\ lastOp' = [op |-> "unregister", result |-> "ok"]
    /\ UNCHANGED <<message_counter, tasks, now, calls, errors, sent>>
    /\ UNCHANGED <<bleVars, frame, connVars>>

\* (mutants) send without the check; send checking ids that ever registered
SendAcceptsAlways(receiver) == TRUE
SendAcceptsEverRegistered(receiver) == lastReg[receiver] # "none"

\* send(sender, receiver, message): the check of line 58
SendAccepts(receiver) == IsRegistered(receiver)

\* (mutant) the counter is not advanced
CounterNotAdvanced == message_counter

\* the id send gives a message, and the counter it leaves (lines 62-63)
NextMessageId == message_counter
CounterAfterSend == message_counter + 1

\* the task send creates (line 69); due is when its sleep(delay) ends
NewTask(sender, receiver, message, message_id, delay) ==
    [sender |-> sender, receiver |-> receiver, message |-> message,
     message_id |-> message_id, due |-> now + delay]

\* (mutant) send that takes the message id before it checks the receiver
SendCountingRejected(sender, receiver, message, latency) ==
    /\ message_counter < MaxSends
    /\ message_counter' = CounterAfterSend
    /\ IF ~SendAccepts(receiver)
       THEN /\ lastOp' = [op |-> "send", result |-> "KeyError"]
            /\ UNCHANGED <<tasks, sent>>
       ELSE /\ now + latency <= MaxTime
            /\ tasks' = tasks \cup
                   {NewTask(sender, receiver, message, NextMessageId, latency)}
            /\ sent' = Append(sent, [sender |-> sender, receiver |-> receiver,
                                     message |-> message, message_id |-> NextMessageId])
            /\ lastOp' = [op |-> "send", result |-> "ok"]
    /\ UNCHANGED <<agents, now, calls, errors, lastReg>>
    /\ UNCHANGED <<bleVars, frame, connVars>>

\* send(sender, receiver, message) with the latency it draws (line 66)
send(sender, receiver, message, latency) ==
    /\ IF ~SendAccepts(receiver)
       THEN /\ lastOp' = [op |-> "send", result |-> "KeyError"]
            /\ UNCHANGED <<message_counter, tasks, sent>>
       ELSE /\ message_counter < MaxSends
            /\ now + latency <= MaxTime
            /\ message_counter' = CounterAfterSend
            /\ tasks' = tasks \cup
                   {NewTask(sender, receiver, message, NextMessageId, latency)}
            /\ sent' = Append(sent, [sender |-> sender, receiver |-> receiver,
                                     message |-> message, message_id |-> NextMessageId])
            /\ lastOp' = [op |-> "send", result |-> "ok"]
    /\ UNCHANGED <<agents, now, calls, errors, lastReg>>
    /\ UNCHANGED <<bleVars, frame, connVars>>

\* (mutant) a lookup that falls back to a default callback
DeliveryCallbackOrDefault(task) ==
    IF IsRegistered(task.receiver) THEN agents[task.receiver] ELSE "h1"

\* (mutant) the delivery keeps to the callback that was registered first
DeliveryCallbackStale(task) ==
    IF IsRegistered(task.receiver) THEN "h1" ELSE None

\* _deliver_message after its sleep: the callback it looks up (line 83)
DeliveryCallback(task) == GetCallback(task.receiver)

\* whether the awaited callback raises (caught and printed at lines 95-96)
Raises(callback) == callback \in RaisingHandlers

\* (mutant) a delivery task that stays scheduled after it ran
TasksKept(task) == tasks

\* the coroutine of a delivery task returns (line 96): the task is over
TasksAfterDelivery(task) == tasks \ {task}

\* _deliver_message(sender, receiver, message, message_id, delay), lines 82-96
_deliver_message(task) ==
    /\ task \in tasks
    /\ now >= task.due
    /\ tasks' = TasksAfterDelivery(task)
    /\ LET callback == DeliveryCallback(task) IN
       IF callback # None
       THEN /\ calls' = Append(calls,
                   [callback |-> callback, receiver |-> task.receiver,
                    sender |-> task.sender,
                    message |-> MessageCopy(task.message, task.message_id, now)])
            /\ errors' = IF Raises(callback) THEN errors \cup {task.message_id}
                          ELSE errors
            /\ lastOp' = [op |-> "deliver", result |-> "called"]
       ELSE /\ UNCHANGED <<calls, errors>>
            /\ lastOp' = [op |-> "deliver", result |-> "dropped"]
    /\ UNCHANGED <<agents, message_counter, now, sent, lastReg>>
    /\ UNCHANGED <<bleVars, frame, connVars>>

\* the clock of the event loop advances
Tick ==
    /\ now < MaxTime
    /\ now' = now + 1
    /\ lastOp' = [op |-> "tick", result |-> "ok"]
    /\ UNCHANGED <<meshVars, bleVars, frame, connVars>>

\* Agent.send_message(receiver, content) (src/agent.py, lines 178-187): the
\* dictionary the agent builds carries the clock of the moment of the call
AgentContents == {"hi"}
AgentMessage(content) ==
    [content |-> content, type |-> "chat", timestamp |-> now]
agent_send_message(agent_id, receiver, content, latency) ==
    send(agent_id, receiver, AgentMessage(content), latency)


(***************************************************************************)
(* JSON text (json.dumps, json.loads) over sequences of characters         *)
(***************************************************************************)
\* the characters of the strings that occur in messages; json.dumps writes
\* ASCII only, so a character is a byte of the UTF-8 encoding
Spell ==
    [sender |-> <<"s", "e", "n", "d", "e", "r">>,
     recipient |-> <<"r", "e", "c", "i", "p", "i", "e", "n", "t">>,
     timestamp |-> <<"t", "i", "m", "e", "s", "t", "a", "m", "p">>,
     data |-> <<"d", "a", "t", "a">>,
     type |-> <<"t", "y", "p", "e">>,
     content |-> <<"c", "o", "n", "t", "e", "n", "t">>,
     chat |-> <<"c", "h", "a", "t">>,
     chatting |-> <<"c", "h", "a", "t", "t", "i", "n", "g">>,
     ping |-> <<"p", "i", "n", "g">>,
     hi |-> <<"h", "i">>,
     to |-> <<"t", "o">>,
     A |-> <<"A">>,
     B |-> <<"B">>,
     R |-> <<"R">>,
     S |-> <<"S">>]
Digits == <<"0", "1", "2", "3", "4", "5", "6", "7", "8", "9">>

\* values: a string, a number, a dict (its items in insertion order), None
Str(s) == [t |-> "str", v |-> s]
Num(n) == [t |-> "num", v |-> n]
Obj(items) == [t |-> "obj", v |-> items]
NoneValue == [t |-> "none", v |-> "None"]
\* k in d, d[k]
HasKey(d, k) == \E i \in DOMAIN d.v : d.v[i][1] = k
Get(d, k) == d.v[CHOOSE i \in DOMAIN d.v : d.v[i][1] = k][2]

RECURSIVE Concat(_)
Concat(ss) == IF ss = << >> THEN << >> ELSE Head(ss) \o Concat(Tail(ss))

\* json.dumps with its default separators; the clock value n is the float n.0
RECURSIVE JsonDumps(_)
RECURSIVE DumpItems(_)
JsonDumps(val) ==
    CASE val.t = "str" -> <<"\"">> \o Spell[val.v] \o <<"\"">>
      [] val.t = "num" -> <<Digits[val.v + 1], ".", "0">>
      [] val.t = "obj" -> <<"{">> \o DumpItems(val.v) \o <<"}">>
DumpItems(items) ==
    IF items = << >> THEN << >>
    ELSE <<"\"">> \o Spell[items[1][1]] \o <<"\"", ":", " ">>
         \o JsonDumps(items[1][2])
         \o (IF Len(items) > 1 THEN <<",", " ">> \o DumpItems(Tail(items))
             ELSE << >>)

\* json.loads, a recursive-descent parser; a result is [ok, val, pos], pos
\* the position after the value
Fail == [ok |-> FALSE, val |-> NoneValue, pos |-> 0]
Ok(val, pos) == [ok |-> TRUE, val |-> val, pos |-> pos]
At(b, i) == IF i <= Len(b) THEN b[i] ELSE "EOF"
RECURSIVE SkipWs(_, _)
SkipWs(b, i) == IF At(b, i) = " " THEN SkipWs(b, i + 1) ELSE i
RECURSIVE StringEnd(_, _)
StringEnd(b, i) ==
    IF i > Len(b) THEN 0 ELSE IF b[i] = "\"" THEN i ELSE StringEnd(b, i + 1)
Unspell(cs) ==
    IF \E s \in DOMAIN Spell : Spell[s] = cs
    THEN CHOOSE s \in DOMAIN Spell : Spell[s] = cs ELSE "?"
ParseString(b, i) ==
    IF At(b, i) # "\"" THEN Fail
    ELSE LET e == StringEnd(b, i + 1) IN
         IF e = 0 THEN Fail ELSE Ok(Unspell(SubSeq(b, i + 1, e - 1)), e + 1)
DigitValue(c) ==
    IF \E d \in DOMAIN Digits : Digits[d] = c
    THEN (CHOOSE d \in DOMAIN Digits : Digits[d] = c) - 1 ELSE -1
RECURSIVE DigitsEnd(_, _)
DigitsEnd(b, i) == IF DigitValue(At(b, i)) >= 0 THEN DigitsEnd(b, i + 1) ELSE i
\* a number: one digit, then an optional fraction
ParseNumber(b, i) ==
    LET d == DigitValue(At(b, i)) IN
    IF d < 0 \/ DigitValue(At(b, i + 1)) >= 0 THEN Fail
    ELSE IF At(b, i + 1) = "."
         THEN LET e == DigitsEnd(b, i + 2) IN
              IF e = i + 2 THEN Fail ELSE Ok(Num(d), e)
         ELSE Ok(Num(d), i + 1)
RECURSIVE ParseValue(_, _)
RECURSIVE ParseItems(_, _, _)
ParseValue(b, i) ==
    CASE At(b, i) = "\"" ->
            LET r == ParseString(b, i) IN
            IF r.ok THEN Ok(Str(r.val), r.pos) ELSE Fail
      [] At(b, i) = "{" ->
            LET j == SkipWs(b, i + 1) IN
            IF At(b, j) = "}" THEN Ok(Obj(<< >>), j + 1)
            ELSE ParseItems(b, j, << >>)
      [] OTHER -> ParseNumber(b, i)
\* the items of a dict from position i on, after the items already read
ParseItems(b, i, items) ==
    LET k == ParseString(b, i) IN
    IF ~k.ok THEN Fail
    ELSE LET c == SkipWs(b, k.pos) IN
         IF At(b, c) # ":" THEN Fail
         ELSE LET v == ParseValue(b, SkipWs(b, c + 1)) IN
              IF ~v.ok THEN Fail
              ELSE LET n == SkipWs(b, v.pos)
                       all == Append(items, <<k.val, v.val>>) IN
                   CASE At(b, n) = "}" -> Ok(Obj(all), n + 1)
                     [] At(b, n) = "," -> ParseItems(b, SkipWs(b, n + 1), all)
                     [] OTHER -> Fail
\* json.loads(data.decode('utf-8')): the value, or the error it raises
DecodeError == [t |-> "error", v |-> "JSONDecodeError"]
JsonLoads(b) ==
    LET r == ParseValue(b, SkipWs(b, 1)) IN
    IF r.ok /\ SkipWs(b, r.pos) = Len(b) + 1 THEN r.val ELSE DecodeError

\* the substring test that 'type' in message is when message is a string
RECURSIVE OccursAt(_, _, _)
OccursAt(cs, sub, i) ==
    IF i + Len(sub) - 1 > Len(cs) THEN FALSE
    ELSE IF SubSeq(cs, i, i + Len(sub) - 1) = sub THEN TRUE
    ELSE OccursAt(cs, sub, i + 1)
Contains(s, sub) ==
    IF s \in DOMAIN Spell THEN OccursAt(Spell[s], Spell[sub], 1) ELSE FALSE

(***************************************************************************)
(* The message dictionaries of the callers and the envelope                *)
(***************************************************************************)
\* {"type": "chat", "content": "hi"}, as the front ends build it
ChatHi == Obj(<< <<"type", Str("chat")>>, <<"content", Str("hi")>> >>)
\* {"type": "chat", "data": "hi"}
ChatData == Obj(<< <<"type", Str("chat")>>, <<"data", Str("hi")>> >>)
\* {"type": "chatting"}: 20 bytes of JSON text
Chatting == Obj(<< <<"type", Str("chatting")>> >>)
\* {"type": "ping"}: 16 bytes of JSON text
Ping == Obj(<< <<"type", Str("ping")>> >>)
\* {"type": "chat", "content": "hi", "to": {"type": "chatting"}}: 61 bytes,
\* the value of "to" is bytes 40..59 of the text
ChatTo == Obj(<< <<"type", Str("chat")>>, <<"content", Str("hi")>>,
                 <<"to", Chatting>> >>)

\* message_with_meta / message_data
Envelope(sender, recipient, timestamp, message) ==
    Obj(<< <<"sender", Str(sender)>>, <<"recipient", Str(recipient)>>,
           <<"timestamp", Num(timestamp)>>, <<"data", message>> >>)

\* max_chunk_size
Mtu == 20

(***************************************************************************)
(* BLEMesh (src/ble_mesh.py): the instances of one process                 *)
(***************************************************************************)
\* the agent ids of the BLEMesh objects this process constructs, and the
\* ids of agents on other devices
BleIds == {"A", "B"}
RemoteIds == {"R"}
TargetIds == BleIds \cup RemoteIds
\* the message types callbacks are registered for
MessageTypes == {"chat"}
\* the message dictionaries handed to send_message
BleMessages == {ChatHi, ChatData}

BleInit ==
    /\ ble_server_clients = {}
    /\ started = {}
    /\ local_agents = [i \in BleIds |-> {}]
    /\ callbacks = [i \in BleIds |-> << >>]
    /\ message_queue = [i \in BleIds |-> << >>]
    /\ ble_calls = << >>
    /\ ble_errors = << >>
    /\ ble_sends = 0

\* BLEMesh(agent_id), lines 44-59
Construct(i) ==
    /\ i \notin ble_server_clients
    /\ ble_server_clients' = ble_server_clients \cup {i}
    /\ lastOp' = [op |-> "construct", result |-> "ok"]
    /\ UNCHANGED <<started, local_agents, callbacks, message_queue, ble_calls,
                   ble_errors, ble_sends>>
    /\ UNCHANGED <<meshVars, now, frame, connVars>>

\* (mutant) _register_local_agent that fills the table of instance i only
LocalAgentsOwnTable(i) ==
    [j \in DOMAIN local_agents |->
        IF j = i THEN local_agents[j] \cup (ble_server_clients \ {i})
        ELSE local_agents[j]]

\* _register_local_agent of instance i: the tables after the loop of lines 75-78
LocalAgentsAfterStart(i) ==
    [j \in DOMAIN local_agents |->
        IF j = i THEN local_agents[j] \cup (ble_server_clients \ {i})
        ELSE IF j \in ble_server_clients THEN local_agents[j] \cup {i}
        ELSE local_agents[j]]

\* start() of instance i, lines 64-65
Start(i) ==
    /\ i \in ble_server_clients
    /\ i \notin started
    /\ started' = started \cup {i}
    /\ local_agents' = LocalAgentsAfterStart(i)
    /\ lastOp' = [op |-> "start", result |-> "ok"]
    /\ UNCHANGED <<ble_server_clients, callbacks, message_queue, ble_calls,
                   ble_errors, ble_sends>>
    /\ UNCHANGED <<meshVars, now, frame, connVars>>

\* start() of an instance that has been started before: the loop of lines
\* 75-78 runs again
StartAgain(i) ==
    /\ i \in started
    /\ local_agents' = LocalAgentsAfterStart(i)
    /\ lastOp' = [op |-> "start", result |-> "again"]
    /\ UNCHANGED <<ble_server_clients, started, callbacks, message_queue,
                   ble_calls, ble_errors, ble_sends>>
    /\ UNCHANGED <<meshVars, now, frame, connVars>>

\* register_callback(message_type, callback) of instance i
RegisterCallback(i, message_type, callback) ==
    /\ i \in ble_server_clients
    /\ callbacks' = [callbacks EXCEPT ![i] =
           [t \in DOMAIN @ \cup {message_type} |->
               IF t = message_type THEN callback ELSE @[t]]]
    /\ lastOp' = [op |-> "register_callback", result |-> "ok"]
    /\ UNCHANGED <<ble_server_clients, started, local_agents, message_queue,
                   ble_calls, ble_errors, ble_sends>>
    /\ UNCHANGED <<meshVars, now, frame, connVars>>

\* the second argument of the callback at line 84: message['data']
LocalCallbackArgument(message) == Get(message, "data")

\* (mutant) the error of a callback leaves _handle_incoming_message
HandlerErrorEscapes(callback) == Raises(callback)

\* whether an error raised by the callback leaves _handle_incoming_message:
\* the except clause of lines 85-86 catches it
HandlerErrorLeaves(callback) == FALSE

\* _handle_incoming_message(sender_id, message) of instance j, lines 82-86:
\* the invocation it makes, the error its except clause prints, and whether
\* an exception leaves it (the test of line 82 is outside the try: a type
\* that is not hashable makes "in self.callbacks" raise TypeError)
HandleIncoming(j, sender_id, message) ==
    IF HasKey(message, "type") /\ Get(message, "type").t = "obj"
    THEN [calls |-> << >>, errors |-> << >>, raised |-> TRUE]
    ELSE IF /\ HasKey(message, "type")
            /\ Get(message, "type").t = "str"
            /\ Get(message, "type").v \in DOMAIN callbacks[j]
    THEN LET callback == callbacks[j][Get(message, "type").v] IN
         IF HasKey(message, "data")
         THEN [calls |-> <<[inst |-> j, callback |-> callback,
                            sender |-> sender_id,
                            payload |-> LocalCallbackArgument(message)]>>,
               errors |-> IF Raises(callback)
                          THEN <<[inst |-> j, error |-> "handler raised"]>>
                          ELSE << >>,
               raised |-> HandlerErrorLeaves(callback)]
         ELSE [calls |-> << >>,
               errors |-> <<[inst |-> j, error |-> "KeyError: 'data'"]>>,
               raised |-> FALSE]
    ELSE [calls |-> << >>, errors |-> << >>, raised |-> FALSE]

\* send_message(target_id, message) of instance i, lines 117-135: the local
\* route returns at line 122 unless the call of line 121 raised; line 124
\* prints, and the envelope is built and queued as for a remote target
send_message(i, target_id, message) ==
    /\ i \in ble_server_clients
    /\ ble_sends < MaxBleSends
    /\ ble_sends' = ble_sends + 1
    /\ LET local == target_id \in local_agents[i]
           r == HandleIncoming(target_id, i, message) IN
       IF local /\ ~r.raised
       THEN /\ ble_calls' = ble_calls \o r.calls
            /\ ble_errors' = ble_errors \o r.errors
            /\ UNCHANGED message_queue
            /\ lastOp' = [op |-> "send_message", from |-> i, target |-> target_id,
                          message |-> message, result |-> "local"]
       ELSE /\ message_queue' = [message_queue EXCEPT ![i] =
                   Append(@, <<target_id, Envelope(i, target_id, now, message)>>)]
            /\ ble_errors' =
                   IF local
                   THEN Append(ble_errors,
                               [inst |-> i, error |-> "Error sending to local agent"])
                   ELSE ble_errors
            /\ UNCHANGED ble_calls
            /\ lastOp' = [op |-> "send_message", from |-> i, target |-> target_id,
                          message |-> message, result |-> "queued"]
    /\ UNCHANGED <<ble_server_clients, started, local_agents, callbacks>>
    /\ UNCHANGED <<meshVars, now, frame, connVars>>

(***************************************************************************)
(* One message on one link: the chunk loop of the sender and the           *)
(* notification handler of the receiver                                    *)
(***************************************************************************)
FrameImpls == {"BLEMesh", "BLECommunicator", "SimpleBLEMesh"}
FrameIdle == [impl |-> "none"]

\* the text the sender writes: BLEMesh and BLECommunicator serialize the
\* envelope, SimpleBLEMesh the message itself
WireBytes(impl, sender, recipient, timestamp, message) ==
    IF impl = "SimpleBLEMesh" THEN JsonDumps(message)
    ELSE JsonDumps(Envelope(sender, recipient, timestamp, message))

\* (mutant) a slice that runs one byte into the next chunk
SliceOverlapping(bytes, i, size) ==
    SubSeq(bytes, i + 1, IF i + size + 1 < Len(bytes) THEN i + size + 1 ELSE Len(bytes))

\* message_bytes[i:i + max_chunk_size]
Slice(bytes, i, size) ==
    SubSeq(bytes, i + 1, IF i + size < Len(bytes) THEN i + size ELSE Len(bytes))

\* (mutant) the loop steps over a chunk
NextOffsetSkipping(i) == i + 2 * Mtu

\* range(0, len(message_bytes), max_chunk_size): the offset after offset i
NextOffset(i) == i + Mtu

\* the message types the receiver has callbacks for, in the tests of C9, C10
ReceiverTypes == {"chat", "chatting", "ping"}

\* the messages and the receivers a frame is drawn from
FrameInit ==
    \E impl \in FrameImpls, message \in {ChatHi, ChatData, Chatting, Ping, ChatTo},
       types \in {{}, ReceiverTypes}, knows \in BOOLEAN :
        frame = [impl |-> impl, sender |-> "A", recipient |-> "R",
                 message |-> message,
                 bytes |-> WireBytes(impl, "A", "R", 0, message),
                 offset |-> 0, status |-> "writing", written |-> << >>,
                 rxTypes |-> types, rxKnows |-> knows,
                 fed |-> 0, calls |-> << >>, errors |-> 0]

\* one iteration of the loop of _send_ble_message (ble_mesh.py 308-310,
\* ble_communicator.py 196-198) or send_message (simple_ble_mesh.py 54-56);
\* ok: whether write_gatt_char returns or raises
WriteChunk(ok) ==
    /\ frame.impl \in FrameImpls
    /\ frame.status = "writing"
    /\ frame.offset < Len(frame.bytes)
    /\ frame' =
         IF ok
         THEN [frame EXCEPT
                  !.written = Append(@, Slice(frame.bytes, frame.offset, Mtu)),
                  !.offset = NextOffset(@),
                  !.status = IF NextOffset(frame.offset) < Len(frame.bytes)
                             THEN "writing" ELSE "sent"]
         ELSE [frame EXCEPT !.status = "failed"]
    /\ lastOp' = [op |-> "write", result |-> IF ok THEN "ok" ELSE "raised"]
    /\ UNCHANGED <<meshVars, bleVars, now, connVars>>

Nothing == [calls |-> << >>, errors |-> 0]
Printed == [calls |-> << >>, errors |-> 1]
Called(sender, payload) ==
    [calls |-> <<[sender |-> sender, payload |-> payload]>>, errors |-> 0]

\* 'type' in message and message['type'] in self.callbacks: "yes", "no", or
\* "raises" for a TypeError
TypeTest(message, types) ==
    CASE message.t = "obj" ->
            IF ~HasKey(message, "type") THEN "no"
            ELSE IF Get(message, "type").t = "obj" THEN "raises"
            ELSE IF Get(message, "type").t = "str" /\ Get(message, "type").v \in types
                 THEN "yes" ELSE "no"
      [] message.t = "str" -> IF Contains(message.v, "type") THEN "raises" ELSE "no"
      [] OTHER -> "raises"

\* BLEMesh._notification_handler, ble_mesh.py 318-335; sender_id is the peer
\* found in connected_devices, None when there is none
NotifyBLEMesh(data, sender_id, types) ==
    LET message == JsonLoads(data) IN
    IF message.t = "error" THEN Printed
    ELSE IF sender_id = NoneValue THEN Nothing
    ELSE CASE TypeTest(message, types) = "raises" -> Printed
           [] TypeTest(message, types) = "no" -> Nothing
           [] OTHER -> IF HasKey(message, "data")
                       THEN Called(sender_id, Get(message, "data"))
                       ELSE Printed

\* SimpleBLEMesh._notification_handler, simple_ble_mesh.py 103-119
NotifySimple(data, peer_id, types) ==
    LET message == JsonLoads(data) IN
    IF message.t = "error" THEN Printed
    ELSE CASE TypeTest(message, types) = "raises" -> Printed
           [] TypeTest(message, types) = "no" -> Nothing
           [] OTHER -> IF peer_id = NoneValue THEN Nothing
                       ELSE Called(peer_id, message)

\* BLECommunicator._notification_handler, ble_communicator.py 206-211
NotifyCommunicator(data, has_callback) ==
    LET message == JsonLoads(data) IN
    IF message.t = "error" THEN Printed
    ELSE IF ~has_callback THEN Nothing
    ELSE IF message.t # "obj" THEN Printed
    ELSE Called(IF HasKey(message, "sender") THEN Get(message, "sender")
                ELSE NoneValue,
                IF HasKey(message, "data") THEN Get(message, "data")
                ELSE Obj(<< >>))

\* the notification handler of the receiver's class on one chunk
NotificationHandler(data) ==
    LET peer == IF frame.rxKnows THEN Str(frame.sender) ELSE NoneValue IN
    CASE frame.impl = "BLEMesh" -> NotifyBLEMesh(data, peer, frame.rxTypes)
      [] frame.impl = "SimpleBLEMesh" -> NotifySimple(data, peer, frame.rxTypes)
      [] OTHER -> NotifyCommunicator(data, frame.rxTypes # {})

\* the next chunk written arrives at the receiver
Notify ==
    /\ frame.impl \in FrameImpls
    /\ frame.fed < Len(frame.written)
    /\ LET r == NotificationHandler(frame.written[frame.fed + 1]) IN
       /\ frame' = [frame EXCEPT !.fed = @ + 1,
                                 !.calls = @ \o r.calls,
                                 !.errors = @ + r.errors]
       /\ lastOp' = [op |-> "notify",
                     result |-> IF r.calls # << >> THEN "called"
                                ELSE IF r.errors > 0 THEN "error" ELSE "ignored"]
    /\ UNCHANGED <<meshVars, bleVars, now, connVars>>

\* the whole text written arrives in one notification, on a link whose
\* notifications are not cut at 20 bytes
NotifyWhole ==
    /\ frame.impl \in FrameImpls
    /\ frame.status = "sent"
    /\ frame.fed = 0
    /\ \E r \in {NotificationHandler(frame.bytes)} :
       /\ frame' = [frame EXCEPT !.status = "arrived",
                                 !.fed = Len(frame.written),
                                 !.calls = @ \o r.calls,
                                 !.errors = @ + r.errors]
       /\ lastOp' = [op |-> "notify_whole",
                     result |-> IF r.calls # << >> THEN "called"
                                ELSE IF r.errors > 0 THEN "error" ELSE "ignored"]
    /\ UNCHANGED <<meshVars, bleVars, now, connVars>>

(***************************************************************************)
(* Connections of one instance: the outbound queue processor, discovery,   *)
(* connection attempts and stop()                                          *)
(***************************************************************************)
\* connection attempts started from advertisements explored per behaviour
MaxDetections == 1
\* advertisements a BLECommunicator sees per behaviour
MaxCommDetections == 2
\* BleakClient objects created per behaviour
MaxClients == 2

\* the instance that is followed, and the agents on other devices
Self == "A"
Peers == {"R", "S"}

\* {"type": {}}: a dictionary whose type is not hashable
ChatNested == Obj(<< <<"type", Obj(<< >>)>> >>)
\* the (target_id, message) pairs handed to send_message
ConnSendInputs == {<<"R", ChatHi>>, <<"S", ChatHi>>, <<"B", ChatNested>>}

\* device names, as the pieces split("-", 1) and startswith see
NoName == << >>
MeshName(agent_id) == <<"AgentMesh", "-", agent_id>>
Advertisements ==
    {NoName, <<"Phone">>} \cup {MeshName(i) : i \in {"A", "B", "R", "S"}}
StartsWithAgentMesh(name) ==
    Len(name) >= 2 /\ name[1] = "AgentMesh" /\ name[2] = "-"
PeerIdOf(name) == IF Len(name) >= 3 THEN name[3] ELSE ""

\* dict assignment and del
Put(f, k, v) == [x \in DOMAIN f \cup {k} |-> IF x = k THEN v ELSE f[x]]
Del(f, k) == [x \in DOMAIN f \ {k} |-> f[x]]

\* peer_id in self.connected_devices and self.connected_devices[peer_id].is_connected
IsConnected(peer_id) ==
    /\ peer_id \in DOMAIN connected_devices
    /\ clients[connected_devices[peer_id]].is_connected

\* any(target == peer_id for target, _ in self.message_queue._queue)
QueueHas(peer_id) ==
    \E k \in DOMAIN message_queue[Self] : message_queue[Self][k][1] = peer_id

\* some envelope for the peer is queued or held by the queue processor
EnvelopePending(peer_id) ==
    QueueHas(peer_id) \/ (proc.pc # "get" /\ proc.target = peer_id)

\* the peer has an entry in the connection table whose link is down
LinkDown(peer_id) ==
    /\ peer_id \in DOMAIN connected_devices
    /\ ~clients[connected_devices[peer_id]].is_connected

\* BLECommunicator.__init__, lines 38-43
CommIdle == [client |-> 0, connected |-> FALSE, target_device |-> NoName]

ProcIdle ==
    [pc |-> "get", target |-> None, client |-> 0, fresh |-> FALSE,
     tries |-> 0, failures |-> 0]

\* history records: a scan, a connection attempt or a write that begins
Event(kind, peer_id, by, pending) ==
    [kind |-> kind, peer |-> peer_id, by |-> by, pending |-> pending,
     own |-> peer_id = Self,
     already |-> IF mesh_class = "BLECommunicator"
                 THEN comm.client # 0 /\ clients[comm.client].is_connected
                 ELSE IsConnected(peer_id),
     local |-> peer_id \in local_agents[Self],
     afterStop |-> stop_pc = "returned"]
Fate(target, tries, failures, outcome, surfaced) ==
    [target |-> target, tries |-> tries, failures |-> failures,
     outcome |-> outcome, surfaced |-> surfaced]

ConnIdle ==
    /\ mesh_class = "none"
    /\ connected_devices = << >>
    /\ clients = << >>
    /\ attempts = {}
    /\ proc = ProcIdle
    /\ scanning = FALSE
    /\ scanner_active = FALSE
    /\ stop_pc = "none"
    /\ stop_items = << >>
    /\ detections = 0
    /\ comm = CommIdle
    /\ fates = << >>

\* A and B constructed and started in one process, each with a callback for
\* "chat", the one of A a callback that raises; the tasks start() created
\* have begun
BleStarted ==
    /\ ble_server_clients = BleIds
    /\ started = BleIds
    /\ local_agents = [i \in BleIds |-> BleIds \ {i}]
    /\ callbacks = [i \in BleIds |-> [t \in {"chat"} |->
                                          IF i = Self THEN "h2" ELSE "h1"]]
    /\ message_queue = [i \in BleIds |-> << >>]
    /\ ble_calls = << >>
    /\ ble_errors = << >>
    /\ ble_sends = 0

ConnStarted ==
    /\ connected_devices = << >>
    /\ clients = << >>
    /\ attempts = {}
    /\ proc = ProcIdle
    /\ scanning = TRUE
    /\ scanner_active = TRUE
    /\ stop_pc = "none"
    /\ stop_items = << >>
    /\ detections = 0
    /\ comm = CommIdle
    /\ fates = << >>

\* a new call of _connect_to_peer
NewAttempt(by, peer_id, stage, pending) ==
    [n |-> IF by = "detect" THEN detections + 1 ELSE 0,
     by |-> by, peer |-> peer_id, stage |-> stage, client |-> 0,
     pending |-> pending]

\* _process_message_queue, lines 140-156: the next item is taken; the write
\* begins on a connected client, else _connect_to_peer begins its scan
ProcessNext ==
    /\ mesh_class = "BLEMesh"
    /\ proc.pc = "get"
    /\ message_queue[Self] # << >>
    /\ LET target_id == Head(message_queue[Self])[1] IN
       /\ message_queue' = [message_queue EXCEPT ![Self] = Tail(@)]
       /\ IF IsConnected(target_id)
          THEN /\ proc' = [pc |-> "sending", target |-> target_id,
                           client |-> connected_devices[target_id],
                           fresh |-> FALSE, tries |-> 1, failures |-> 0]
               /\ lastOp' = [op |-> "process", result |-> "sending",
                             event |-> {Event("write", target_id, "queue", TRUE)}]
               /\ UNCHANGED attempts
          ELSE /\ proc' = [pc |-> "connecting", target |-> target_id,
                           client |-> 0, fresh |-> TRUE, tries |-> 0,
                           failures |-> 0]
               /\ attempts' = attempts \cup
                      {NewAttempt("queue", target_id, "scan", EnvelopePending(target_id))}
               /\ lastOp' = [op |-> "process", result |-> "connecting",
                             event |-> {Event("scan", target_id, "queue",
                                              EnvelopePending(target_id))}]
    /\ UNCHANGED <<wire, mesh_class, connected_devices, clients, scanning,
                   scanner_active, stop_pc, stop_items, detections, comm, fates>>
    /\ UNCHANGED <<ble_server_clients, started, local_agents, callbacks,
                   ble_calls, ble_errors, ble_sends>>
    /\ UNCHANGED <<meshVars, now, frame, comm>>

\* _send_ble_message returns or raises (lines 148-153 and 158-161): after a
\* failure on a client that was connected, _connect_to_peer is called and
\* the loop goes on to the next item; after a failure on a fresh connection
\* the loop goes on at once
SendDone(ok) ==
    /\ mesh_class = "BLEMesh"
    /\ proc.pc = "sending"
    /\ IF ok
       THEN /\ fates' = Append(fates, Fate(proc.target, proc.tries,
                                           proc.failures, "sent", "printed"))
            /\ proc' = ProcIdle
            /\ lastOp' = [op |-> "send_done", result |-> "ok", event |-> {}]
            /\ UNCHANGED attempts
       ELSE IF proc.fresh \/ IsConnected(proc.target)
       THEN /\ fates' = Append(fates, Fate(proc.target, proc.tries,
                                           proc.failures + 1, "send_failed",
                                           "printed"))
            /\ proc' = ProcIdle
            /\ lastOp' = [op |-> "send_done", result |-> "raised", event |-> {}]
            /\ UNCHANGED attempts
       ELSE /\ proc' = [proc EXCEPT !.pc = "reconnecting",
                                    !.failures = @ + 1]
            /\ attempts' = attempts \cup
                   {NewAttempt("retry", proc.target, "scan",
                               EnvelopePending(proc.target))}
            /\ lastOp' = [op |-> "send_done", result |-> "raised",
                          event |-> {Event("scan", proc.target, "retry",
                                           EnvelopePending(proc.target))}]
            /\ UNCHANGED fates
    /\ UNCHANGED <<wire, mesh_class, connected_devices, clients, scanning,
                   scanner_active, stop_pc, stop_items, detections>>
    /\ UNCHANGED <<bleVars, meshVars, now, frame, comm>>

\* _connect_to_peer returns ok to the code that awaited it: the queue
\* processor writes or gives the envelope up, a task just ends
Resume(a, ok, devices) ==
    CASE a.by = "queue" ->
           IF ok
           THEN [proc |-> [proc EXCEPT !.pc = "sending",
                                       !.client = devices[a.peer],
                                       !.tries = 1],
                 fates |-> fates,
                 events |-> {Event("write", a.peer, "queue", TRUE)}]
           ELSE [proc |-> ProcIdle,
                 fates |-> Append(fates, Fate(proc.target, 0, 0,
                                              "unreachable", "printed")),
                 events |-> {}]
      [] a.by = "retry" ->
           [proc |-> ProcIdle,
            fates |-> Append(fates, Fate(proc.target, proc.tries,
                                         proc.failures, "send_failed",
                                         "printed")),
            events |-> {}]
      [] OTHER -> [proc |-> proc, fates |-> fates, events |-> {}]

\* _connect_to_peer, lines 262-276: BleakScanner.discover returns; with the
\* device found a client is created and connect() begins
DiscoverDone(a, found) ==
    /\ mesh_class = "BLEMesh"
    /\ a \in attempts
    /\ a.stage = "scan"
    /\ found => Len(clients) < MaxClients
    /\ IF found
       THEN /\ clients' = Append(clients, [peer |-> a.peer, is_connected |-> FALSE])
            /\ attempts' = (attempts \ {a}) \cup
                   {[a EXCEPT !.stage = "connect", !.client = Len(clients) + 1]}
            /\ lastOp' = [op |-> "discover_done", result |-> "found",
                          event |-> {Event("connect", a.peer, a.by, a.pending)}]
            /\ UNCHANGED <<proc, fates>>
       ELSE LET r == Resume(a, FALSE, connected_devices) IN
            /\ attempts' = attempts \ {a}
            /\ proc' = r.proc
            /\ fates' = r.fates
            /\ lastOp' = [op |-> "discover_done", result |-> "none",
                          event |-> r.events]
            /\ UNCHANGED clients
    /\ UNCHANGED <<wire, mesh_class, connected_devices, scanning, scanner_active,
                   stop_pc, stop_items, detections>>
    /\ UNCHANGED <<bleVars, meshVars, now, frame, comm>>

\* _connect_to_peer (ble_mesh.py 277-291, simple_ble_mesh.py 87-99): connect()
\* and start_notify return and the client is stored, or connect() raises;
\* BLEMesh then deletes the entry of the peer
ConnectDone(a, ok) ==
    /\ mesh_class \in {"BLEMesh", "SimpleBLEMesh"}
    /\ a \in attempts
    /\ a.stage = "connect"
    /\ LET devices == IF ok THEN Put(connected_devices, a.peer, a.client)
                      ELSE IF mesh_class = "BLEMesh"
                      THEN Del(connected_devices, a.peer)
                      ELSE connected_devices
           r == Resume(a, ok, devices) IN
       /\ connected_devices' = devices
       /\ clients' = IF ok THEN [clients EXCEPT ![a.client].is_connected = TRUE]
                     ELSE clients
       /\ attempts' = attempts \ {a}
       /\ proc' = r.proc
       /\ fates' = r.fates
       /\ lastOp' = [op |-> "connect_done",
                     result |-> IF ok THEN "ok" ELSE "raised",
                     event |-> r.events]
    /\ UNCHANGED <<wire, mesh_class, scanning, scanner_active, stop_pc, stop_items,
                   detections>>
    /\ UNCHANGED <<bleVars, meshVars, now, frame, comm>>

\* (mutant) the test of line 235 is left out
DetectionConnectsLocal(name) ==
    /\ name # NoName
    /\ name # MeshName(Self)
    /\ StartsWithAgentMesh(name)
    /\ PeerIdOf(name) # Self
    /\ PeerIdOf(name) \notin DOMAIN connected_devices
    /\ QueueHas(PeerIdOf(name))

\* BLEMesh._detection_callback, lines 220-243: the advertisement makes it
\* create a _connect_to_peer task
DetectionConnects(name) ==
    /\ name # NoName
    /\ name # MeshName(Self)
    /\ StartsWithAgentMesh(name)
    /\ PeerIdOf(name) # Self
    /\ PeerIdOf(name) \notin DOMAIN connected_devices
    /\ PeerIdOf(name) \notin local_agents[Self]
    /\ QueueHas(PeerIdOf(name))

\* the scanner of _scan_for_peers delivers an advertisement
_detection_callback(name) ==
    /\ mesh_class = "BLEMesh"
    /\ scanner_active
    /\ detections < MaxDetections
    /\ detections' = detections + 1
    /\ attempts' = IF DetectionConnects(name)
                   THEN attempts \cup
                        {NewAttempt("detect", PeerIdOf(name), "start",
                                    EnvelopePending(PeerIdOf(name)))}
                   ELSE attempts
    /\ lastOp' = [op |-> "detection",
                  result |-> IF DetectionConnects(name) THEN "task" ELSE "ignored",
                  event |-> {}]
    /\ UNCHANGED <<wire, mesh_class, connected_devices, clients, proc, scanning,
                   scanner_active, stop_pc, stop_items, fates>>
    /\ UNCHANGED <<bleVars, meshVars, now, frame, comm>>

\* the task created by the detection callback runs _connect_to_peer(peer_id,
\* address) up to its first await, lines 259-277
ConnectTaskStart(a) ==
    /\ mesh_class = "BLEMesh"
    /\ a \in attempts
    /\ a.stage = "start"
    /\ ~IsConnected(a.peer) => Len(clients) < MaxClients
    /\ IF IsConnected(a.peer)
       THEN /\ attempts' = attempts \ {a}
            /\ lastOp' = [op |-> "task_start", result |-> "connected", event |-> {}]
            /\ UNCHANGED clients
       ELSE /\ clients' = Append(clients, [peer |-> a.peer, is_connected |-> FALSE])
            /\ attempts' = (attempts \ {a}) \cup
                   {[a EXCEPT !.stage = "connect", !.client = Len(clients) + 1]}
            /\ lastOp' = [op |-> "task_start", result |-> "connecting",
                          event |-> {Event("connect", a.peer, a.by, a.pending)}]
    /\ UNCHANGED <<wire, mesh_class, connected_devices, proc, scanning, scanner_active,
                   stop_pc, stop_items, detections, comm, fates>>
    /\ UNCHANGED <<bleVars, meshVars, now, frame, comm>>

\* the link of a connected client is lost
LinkLoss(c) ==
    /\ mesh_class \in FrameImpls
    /\ c \in DOMAIN clients
    /\ clients[c].is_connected
    /\ clients' = [clients EXCEPT ![c].is_connected = FALSE]
    /\ lastOp' = [op |-> "link_loss", result |-> "ok", event |-> {}]
    /\ UNCHANGED <<wire, mesh_class, connected_devices, attempts, proc, scanning,
                   scanner_active, stop_pc, stop_items, detections, comm, fates>>
    /\ UNCHANGED <<bleVars, meshVars, now, frame, comm>>

\* the orders in which list(self.connected_devices.items()) of line 94 can
\* hold the entries of the table
StopOrders(devices) ==
    LET pairs == {<<p, devices[p]>> : p \in DOMAIN devices} IN
    {o \in [1..Cardinality(pairs) -> pairs] :
        \A x, y \in DOMAIN o : o[x] = o[y] => x = y}

\* BLEMesh.stop, lines 94-97: the loop runs on without suspending over the
\* items whose client is not connected, up to the first item whose client
\* is (line 96 suspends there) or to its end; del raises KeyError for an
\* entry that has gone
RECURSIVE StopRun(_, _, _)
StopRun(items, devices, cl) ==
    IF items = << >> THEN [pc |-> "returned", items |-> << >>, devices |-> devices]
    ELSE IF cl[items[1][2]].is_connected
    THEN [pc |-> "loop", items |-> items, devices |-> devices]
    ELSE IF items[1][1] \in DOMAIN devices
    THEN StopRun(Tail(items), Del(devices, items[1][1]), cl)
    ELSE [pc |-> "raised", items |-> items, devices |-> devices]

\* BLEMesh.stop, line 97 after disconnect() of line 96 has returned: del of
\* the entry, and the loop goes on
StopDel(items, devices, cl) ==
    IF items[1][1] \in DOMAIN devices
    THEN StopRun(Tail(items), Del(devices, items[1][1]), cl)
    ELSE [pc |-> "raised", items |-> items, devices |-> devices]

\* BLEMesh.stop, lines 90-96: the flags are cleared, the loop takes its copy
\* of the connection table and runs to its first disconnect()
stop ==
    /\ mesh_class = "BLEMesh"
    /\ stop_pc = "none"
    /\ scanning' = FALSE
    /\ \E o \in StopOrders(connected_devices) :
          \E r \in {StopRun(o, connected_devices, clients)} :
             /\ stop_items' = r.items
             /\ connected_devices' = r.devices
             /\ stop_pc' = r.pc
    /\ lastOp' = [op |-> "stop", result |-> stop_pc', event |-> {}]
    /\ UNCHANGED <<wire, mesh_class, clients, attempts, proc,
                   scanner_active, detections, fates>>
    /\ UNCHANGED <<bleVars, meshVars, now, frame, comm>>

\* BLEMesh.stop, lines 96-97: disconnect() of the item the loop is at
\* returns, and the loop runs to its next disconnect() or to its end
StopStep(item) ==
    /\ mesh_class = "BLEMesh"
    /\ stop_pc = "loop"
    /\ item = Head(stop_items)
    /\ clients' = [clients EXCEPT ![item[2]].is_connected = FALSE]
    /\ \E r \in {StopDel(stop_items, connected_devices, clients')} :
          /\ stop_items' = r.items
          /\ connected_devices' = r.devices
          /\ stop_pc' = r.pc
    /\ lastOp' = [op |-> "stop_step", result |-> stop_pc', event |-> {}]
    /\ UNCHANGED <<wire, mesh_class, attempts, proc, scanning, scanner_active,
                   detections, fates>>
    /\ UNCHANGED <<bleVars, meshVars, now, frame, comm>>

\* _scan_for_peers (ble_mesh.py 200-211) and _scan_loop (simple_ble_mesh.py
\* 65-80): the sleep ends and the loop ends because the flag is False
ScanLoopExit ==
    /\ mesh_class \in {"BLEMesh", "SimpleBLEMesh"}
    /\ scanner_active
    /\ ~scanning
    /\ scanner_active' = FALSE
    /\ lastOp' = [op |-> "scan_exit", result |-> "ok", event |-> {}]
    /\ UNCHANGED <<wire, mesh_class, connected_devices, clients, attempts, proc,
                   scanning, stop_pc, stop_items, detections, comm, fates>>
    /\ UNCHANGED <<bleVars, meshVars, now, frame, comm>>

\* the scan raises: the scanner cannot be started or fails while it runs.
\* _scan_for_peers (ble_mesh.py 201-215) and _scan_loop (simple_ble_mesh.py
\* 66-80) catch the error inside their loop and sleep; in _scan_for_devices
\* (ble_communicator.py 137-149) an error of scanner.start() leaves the task,
\* whose try has no except clause for it
ScanError ==
    /\ mesh_class \in FrameImpls
    /\ scanner_active
    /\ mesh_class = "SimpleBLEMesh" => attempts = {}
    /\ mesh_class = "BLECommunicator" => (detections = 0 /\ attempts = {})
    /\ scanner_active' = FALSE
    /\ lastOp' = [op |-> "scan_error",
                  result |-> IF mesh_class = "BLECommunicator" THEN "task_ended"
                             ELSE "printed",
                  event |-> {}]
    /\ UNCHANGED <<wire, mesh_class, connected_devices, clients, attempts, proc,
                   scanning, stop_pc, stop_items, detections, comm, fates>>
    /\ UNCHANGED <<bleVars, meshVars, now, frame>>

\* the sleep after a scan error ends (ble_mesh.py 215, simple_ble_mesh.py 80)
\* and the loop, whose flag is still set, scans again
ScanRestart ==
    /\ mesh_class \in {"BLEMesh", "SimpleBLEMesh"}
    /\ ~scanner_active
    /\ scanning
    /\ scanner_active' = TRUE
    /\ lastOp' = [op |-> "scan_restart", result |-> "ok", event |-> {}]
    /\ UNCHANGED <<wire, mesh_class, connected_devices, clients, attempts, proc,
                   scanning, stop_pc, stop_items, detections, comm, fates>>
    /\ UNCHANGED <<bleVars, meshVars, now, frame>>

(***************************************************************************)
(* SimpleBLEMesh (src/simple_ble_mesh.py)                                  *)
(***************************************************************************)
\* _scan_loop, lines 71-73: the device makes the loop call _connect_to_peer
SimpleScanConnects(name) ==
    /\ name # NoName
    /\ StartsWithAgentMesh(name)
    /\ PeerIdOf(name) # Self
    /\ PeerIdOf(name) \notin DOMAIN connected_devices

\* _scan_loop, lines 70-75, with _connect_to_peer up to its await of
\* connect(): one device of the list discover() returned; the loop awaits
\* the connection before it looks at the next device
SimpleScanDevice(name) ==
    /\ mesh_class = "SimpleBLEMesh"
    /\ scanner_active
    /\ attempts = {}
    /\ detections < MaxDetections
    /\ SimpleScanConnects(name) => Len(clients) < MaxClients
    /\ detections' = detections + 1
    /\ IF SimpleScanConnects(name)
       THEN /\ clients' = Append(clients, [peer |-> PeerIdOf(name),
                                           is_connected |-> FALSE])
            /\ attempts' = {[NewAttempt("detect", PeerIdOf(name), "connect",
                                          EnvelopePending(PeerIdOf(name)))
                               EXCEPT !.client = Len(clients) + 1]}
            /\ lastOp' = [op |-> "detection", result |-> "task",
                          event |-> {Event("connect", PeerIdOf(name), "detect",
                                           EnvelopePending(PeerIdOf(name)))}]
       ELSE /\ lastOp' = [op |-> "detection", result |-> "ignored", event |-> {}]
            /\ UNCHANGED <<clients, attempts>>
    /\ UNCHANGED <<wire, mesh_class, connected_devices, proc, scanning, scanner_active,
                   stop_pc, stop_items, comm, fates>>
    /\ UNCHANGED <<bleVars, meshVars, now, frame>>

\* SimpleBLEMesh.send_message, lines 48-61: the chunks are written on the
\* client of the target, and the entry is deleted when a write raises;
\* nothing happens for a target that is not connected
SimpleSend(target_id, ok) ==
    /\ mesh_class = "SimpleBLEMesh"
    /\ ble_sends < MaxBleSends
    /\ ble_sends' = ble_sends + 1
    /\ IF IsConnected(target_id)
       THEN /\ fates' = Append(fates,
                   IF ok THEN Fate(target_id, 1, 0, "sent", "printed")
                   ELSE Fate(target_id, 1, 1, "send_failed", "printed"))
            /\ connected_devices' = IF ok THEN connected_devices
                                    ELSE Del(connected_devices, target_id)
            /\ lastOp' = [op |-> "send_message", result |-> "written",
                          event |-> {Event("write", target_id, "send", TRUE)}]
       ELSE /\ fates' = Append(fates, Fate(target_id, 0, 0, "unreachable",
                                           "nothing"))
            /\ lastOp' = [op |-> "send_message", result |-> "nothing",
                          event |-> {}]
            /\ UNCHANGED connected_devices
    /\ UNCHANGED <<wire, mesh_class, clients, attempts, proc, scanning, scanner_active,
                   stop_pc, stop_items, detections, comm>>
    /\ UNCHANGED <<ble_server_clients, started, local_agents, callbacks,
                   message_queue, ble_calls, ble_errors>>
    /\ UNCHANGED <<meshVars, now, frame>>

\* SimpleBLEMesh.stop, lines 41-44: running is cleared and every connected
\* client is disconnected; the table keeps its entries
SimpleStop ==
    /\ mesh_class = "SimpleBLEMesh"
    /\ stop_pc = "none"
    /\ scanning' = FALSE
    /\ clients' = [c \in DOMAIN clients |->
                      IF \E p \in DOMAIN connected_devices : connected_devices[p] = c
                      THEN [clients[c] EXCEPT !.is_connected = FALSE]
                      ELSE clients[c]]
    /\ stop_pc' = "returned"
    /\ lastOp' = [op |-> "stop", result |-> "returned", event |-> {}]
    /\ UNCHANGED <<wire, mesh_class, connected_devices, attempts, proc, scanner_active,
                   stop_items, detections, comm, fates>>
    /\ UNCHANGED <<bleVars, meshVars, now, frame>>

(***************************************************************************)
(* BLECommunicator (src/ble_communicator.py)                               *)
(***************************************************************************)
\* the device names its scanner reports: servers are named by their agent id
CommAdvertisements == {NoName, <<"A">>, <<"R">>, <<"S">>}

\* BLECommunicator.send_message, lines 78-84
CommSend(target_id, message) ==
    /\ mesh_class = "BLECommunicator"
    /\ ble_sends < MaxBleSends
    /\ ble_sends' = ble_sends + 1
    /\ message_queue' = [message_queue EXCEPT ![Self] =
           Append(@, <<target_id, Envelope(Self, target_id, now, message)>>)]
    /\ lastOp' = [op |-> "send_message", result |-> "queued", event |-> {}]
    /\ UNCHANGED <<ble_server_clients, started, local_agents, callbacks,
                   ble_calls, ble_errors>>
    /\ UNCHANGED <<meshVars, now, frame, connVars>>

\* not self.connected or not self.client or not self.client.is_connected
CommCannotSend ==
    \/ ~comm.connected
    \/ comm.client = 0
    \/ ~clients[comm.client].is_connected

\* BLECommunicator._process_message_queue, lines 89-96: the next envelope is
\* taken; it is dropped with a warning, or its write begins
CommProcessNext ==
    /\ mesh_class = "BLECommunicator"
    /\ proc.pc = "get"
    /\ message_queue[Self] # << >>
    /\ LET target_id == Head(message_queue[Self])[1] IN
       /\ message_queue' = [message_queue EXCEPT ![Self] = Tail(@)]
       /\ IF CommCannotSend
          THEN /\ fates' = Append(fates, Fate(target_id, 0, 0, "unreachable",
                                              "logged"))
               /\ lastOp' = [op |-> "process", result |-> "dropped", event |-> {}]
               /\ UNCHANGED proc
          ELSE /\ proc' = [pc |-> "sending", target |-> target_id,
                           client |-> comm.client, fresh |-> FALSE,
                           tries |-> 1, failures |-> 0]
               /\ lastOp' = [op |-> "process", result |-> "sending",
                             event |-> {Event("write", target_id, "queue", TRUE)}]
               /\ UNCHANGED fates
    /\ UNCHANGED <<wire, mesh_class, connected_devices, clients, attempts, scanning,
                   scanner_active, stop_pc, stop_items, detections, comm>>
    /\ UNCHANGED <<ble_server_clients, started, local_agents, callbacks,
                   ble_calls, ble_errors, ble_sends>>
    /\ UNCHANGED <<meshVars, now, frame>>

\* BLECommunicator._process_message_queue, lines 96-100: _send_ble_message
\* returns, or raises and connected is cleared
CommSendDone(ok) ==
    /\ mesh_class = "BLECommunicator"
    /\ proc.pc = "sending"
    /\ fates' = Append(fates,
           IF ok THEN Fate(proc.target, 1, 0, "sent", "logged")
           ELSE Fate(proc.target, 1, 1, "send_failed", "logged"))
    /\ comm' = IF ok THEN comm ELSE [comm EXCEPT !.connected = FALSE]
    /\ proc' = ProcIdle
    /\ lastOp' = [op |-> "send_done", result |-> IF ok THEN "ok" ELSE "raised",
                  event |-> {}]
    /\ UNCHANGED <<wire, mesh_class, connected_devices, clients, attempts, scanning,
                   scanner_active, stop_pc, stop_items, detections>>
    /\ UNCHANGED <<bleVars, meshVars, now, frame>>

\* BLECommunicator._detection_callback, line 153
CommDetectionAccepts(name) ==
    name # NoName /\ name # <<Self>> /\ ~comm.connected

\* BLECommunicator._detection_callback, lines 153-156
CommDetection(name) ==
    /\ mesh_class = "BLECommunicator"
    /\ scanner_active
    /\ detections < MaxCommDetections
    /\ detections' = detections + 1
    /\ IF CommDetectionAccepts(name)
       THEN /\ comm' = [comm EXCEPT !.target_device = name]
            /\ attempts' = attempts \cup
                   {NewAttempt("detect", name[1], "start",
                               EnvelopePending(name[1]))}
            /\ lastOp' = [op |-> "detection", result |-> "task", event |-> {}]
       ELSE /\ lastOp' = [op |-> "detection", result |-> "ignored", event |-> {}]
            /\ UNCHANGED <<comm, attempts>>
    /\ UNCHANGED <<wire, mesh_class, connected_devices, clients, proc, scanning,
                   scanner_active, stop_pc, stop_items, fates>>
    /\ UNCHANGED <<bleVars, meshVars, now, frame>>

\* BLECommunicator._connect_to_device, lines 160-170, up to its await of
\* connect(): the device dialed is the one target_device holds now
CommConnectStart(a) ==
    /\ mesh_class = "BLECommunicator"
    /\ a \in attempts
    /\ a.stage = "start"
    /\ LET returns == \/ comm.target_device = NoName
                      \/ comm.connected
                      \/ (comm.client # 0 /\ clients[comm.client].is_connected)
           peer_id == comm.target_device[1] IN
       /\ ~returns => Len(clients) < MaxClients
       /\ IF returns
          THEN /\ attempts' = attempts \ {a}
               /\ lastOp' = [op |-> "task_start", result |-> "returned",
                             event |-> {}]
               /\ UNCHANGED <<clients, comm>>
          ELSE /\ clients' = Append(clients, [peer |-> peer_id,
                                              is_connected |-> FALSE])
               /\ comm' = [comm EXCEPT !.client = Len(clients) + 1]
               /\ attempts' = (attempts \ {a}) \cup
                      {[a EXCEPT !.stage = "connect", !.peer = peer_id,
                                 !.client = Len(clients) + 1]}
               /\ lastOp' = [op |-> "task_start", result |-> "connecting",
                             event |-> {Event("connect", peer_id, "detect",
                                              EnvelopePending(peer_id))}]
    /\ UNCHANGED <<wire, mesh_class, connected_devices, proc, scanning, scanner_active,
                   stop_pc, stop_items, detections, fates>>
    /\ UNCHANGED <<bleVars, meshVars, now, frame>>

\* (mutant) start_notify that raises for no client
StartNotifyNeverRaises(c, cl) == FALSE

\* BLECommunicator._connect_to_device, line 175: self.client is read again
\* after connect() has returned; the call raises AttributeError when the
\* field is None by then and BleakError("Not connected") when it holds a
\* client whose connect() has not returned
StartNotifyRaises(c, cl) == c = 0 \/ ~cl[c].is_connected

\* BLECommunicator._connect_to_device, lines 170-180: connect() returns,
\* connected is set and start_notify is called on the client the field
\* holds now, or one of the two raises and connected and client are cleared
CommConnectDone(a, ok) ==
    /\ mesh_class = "BLECommunicator"
    /\ a \in attempts
    /\ a.stage = "connect"
    /\ attempts' = attempts \ {a}
    /\ clients' = IF ok THEN [clients EXCEPT ![a.client].is_connected = TRUE]
                  ELSE clients
    /\ comm' = IF ok /\ ~StartNotifyRaises(comm.client, clients')
               THEN [comm EXCEPT !.connected = TRUE]
               ELSE [comm EXCEPT !.connected = FALSE, !.client = 0]
    /\ lastOp' = [op |-> "connect_done",
                  result |-> IF ~ok THEN "raised"
                             ELSE IF comm'.connected THEN "ok"
                             ELSE "notify_raised",
                  event |-> {}]
    /\ UNCHANGED <<wire, mesh_class, connected_devices, proc, scanning, scanner_active,
                   stop_pc, stop_items, detections, fates>>
    /\ UNCHANGED <<bleVars, meshVars, now, frame>>

\* BLECommunicator.stop, lines 65-68
CommStop ==
    /\ mesh_class = "BLECommunicator"
    /\ stop_pc = "none"
    /\ clients' = IF comm.client # 0
                  THEN [clients EXCEPT ![comm.client].is_connected = FALSE]
                  ELSE clients
    /\ stop_pc' = "returned"
    /\ lastOp' = [op |-> "stop", result |-> "returned", event |-> {}]
    /\ UNCHANGED <<wire, mesh_class, connected_devices, attempts, proc, scanning,
                   scanner_active, stop_items, detections, comm, fates>>
    /\ UNCHANGED <<bleVars, meshVars, now, frame>>

(***************************************************************************)
(* The chunks on the connections of one instance: BLEMesh writes the       *)
(* envelopes of its queue from one task, SimpleBLEMesh writes a message    *)
(* from the send_message call itself                                       *)
(***************************************************************************)
\* send_message calls explored per behaviour
MaxEnvelopes == 2

WireClasses == {"BLEMesh", "SimpleBLEMesh"}
WireMessages == {ChatHi, ChatTo}
WireIdle == [envs |-> << >>]

\* the instance with a connection to every peer, and nothing sent yet
WireConnected ==
    /\ mesh_class \in WireClasses
    /\ connected_devices = [p \in Peers |-> IF p = "R" THEN 1 ELSE 2]
    /\ clients = <<[peer |-> "R", is_connected |-> TRUE],
                   [peer |-> "S", is_connected |-> TRUE]>>
    /\ attempts = {}
    /\ proc = ProcIdle
    /\ scanning = TRUE
    /\ scanner_active = TRUE
    /\ stop_pc = "none"
    /\ stop_items = << >>
    /\ detections = 0
    /\ comm = CommIdle
    /\ fates = << >>
    /\ wire = [envs |-> << >>, status |-> << >>, offs |-> << >>,
               queue |-> << >>, cur |-> 0,
               log |-> [c \in DOMAIN clients |-> << >>]]

\* (mutant) the processor takes the item that was put last
WireTakeLast(queue) ==
    [item |-> queue[Len(queue)], rest |-> SubSeq(queue, 1, Len(queue) - 1)]

\* await self.message_queue.get() (ble_mesh.py 141): the oldest item
WireTake(queue) == [item |-> Head(queue), rest |-> Tail(queue)]

\* the text written for envelope k
EnvelopeBytes(w, k) ==
    WireBytes(mesh_class, Self, w.envs[k].target, 0, w.envs[k].message)

\* one pass of the chunk loop for envelope k (ble_mesh.py 308-310,
\* simple_ble_mesh.py 54-56): write_gatt_char is called on the client that
\* was looked up for the target, and returns or raises; the exception ends
\* the loop (ble_mesh.py 312-314, simple_ble_mesh.py 58-59)
ChunkWritten(w, k, ok) ==
    LET client == w.envs[k].client
        next == NextOffset(w.offs[k])
        last == next >= Len(EnvelopeBytes(w, k)) IN
    IF ok
    THEN [w EXCEPT !.log[client] = Append(@, <<k, w.offs[k]>>),
                   !.offs[k] = next,
                   !.status[k] = IF last THEN "sent" ELSE "writing",
                   !.cur = IF last THEN 0 ELSE @]
    ELSE [w EXCEPT !.status[k] = "failed", !.cur = 0]

\* BLEMesh.send_message, lines 126-135: the envelope is put on the queue
WireSendMessage(target_id, message) ==
    /\ mesh_class = "BLEMesh"
    /\ Len(wire.envs) < MaxEnvelopes
    /\ wire' = [wire EXCEPT
                   !.envs = Append(@, [target |-> target_id, message |-> message,
                                       client |-> 0]),
                   !.status = Append(@, "queued"),
                   !.offs = Append(@, 0),
                   !.queue = Append(@, Len(wire.envs) + 1)]
    /\ lastOp' = [op |-> "send_message", result |-> "queued"]
    /\ UNCHANGED <<meshVars, bleVars, now, frame>>
    /\ UNCHANGED <<mesh_class, connected_devices, clients, attempts, proc,
                   scanning, scanner_active, stop_pc, stop_items, detections,
                   comm, fates>>

\* _process_message_queue, lines 140-148, with _send_ble_message up to its
\* first await: the task takes the next item and writes its first chunk
WireProcessNext(ok) ==
    /\ mesh_class = "BLEMesh"
    /\ wire.cur = 0
    /\ wire.queue # << >>
    /\ LET take == WireTake(wire.queue) IN
       wire' = ChunkWritten(
                  [wire EXCEPT
                     !.queue = take.rest, !.cur = take.item,
                     !.envs[take.item].client =
                         connected_devices[wire.envs[take.item].target]],
                  take.item, ok)
    /\ lastOp' = [op |-> "process", result |-> IF ok THEN "ok" ELSE "raised"]
    /\ UNCHANGED <<meshVars, bleVars, now, frame>>
    /\ UNCHANGED <<mesh_class, connected_devices, clients, attempts, proc,
                   scanning, scanner_active, stop_pc, stop_items, detections,
                   comm, fates>>

\* del self.connected_devices[target_id] (simple_ble_mesh.py 61), after a
\* write of SimpleBLEMesh raised
AfterWrite(target_id, ok) ==
    IF mesh_class = "SimpleBLEMesh" /\ ~ok /\ target_id \in DOMAIN connected_devices
    THEN Del(connected_devices, target_id) ELSE connected_devices

\* SimpleBLEMesh.send_message, lines 48-56, up to its first await: for a
\* connected target the call serializes the message and writes its first
\* chunk; for any other target it returns
WireSimpleSend(target_id, message, ok) ==
    /\ mesh_class = "SimpleBLEMesh"
    /\ Len(wire.envs) < MaxEnvelopes
    /\ IF IsConnected(target_id)
       THEN /\ wire' = ChunkWritten(
                   [wire EXCEPT
                      !.envs = Append(@, [target |-> target_id, message |-> message,
                                          client |-> connected_devices[target_id]]),
                      !.status = Append(@, "writing"),
                      !.offs = Append(@, 0)],
                   Len(wire.envs) + 1, ok)
            /\ connected_devices' = AfterWrite(target_id, ok)
            /\ lastOp' = [op |-> "send_message",
                          result |-> IF ok THEN "ok" ELSE "raised"]
       ELSE /\ lastOp' = [op |-> "send_message", result |-> "nothing"]
            /\ UNCHANGED <<wire, connected_devices>>
    /\ UNCHANGED <<meshVars, bleVars, now, frame>>
    /\ UNCHANGED <<mesh_class, clients, attempts, proc,
                   scanning, scanner_active, stop_pc, stop_items, detections,
                   comm, fates>>

\* the await of write_gatt_char ends and the loop of envelope k writes its
\* next chunk: the loop of the one processor task in BLEMesh, the loop of
\* any send_message call that is under way in SimpleBLEMesh
WireWrite(k, ok) ==
    /\ mesh_class \in WireClasses
    /\ k \in DOMAIN wire.envs
    /\ wire.status[k] = "writing"
    /\ mesh_class = "BLEMesh" => wire.cur = k
    /\ wire' = ChunkWritten(wire, k, ok)
    /\ connected_devices' = AfterWrite(wire.envs[k].target, ok)
    /\ lastOp' = [op |-> "write", result |-> IF ok THEN "ok" ELSE "raised"]
    /\ UNCHANGED <<meshVars, bleVars, now, frame>>
    /\ UNCHANGED <<mesh_class, clients, attempts, proc,
                   scanning, scanner_active, stop_pc, stop_items, detections,
                   comm, fates>>

(***************************************************************************)
(* Specifications                                                          *)
(***************************************************************************)
Init == MeshInit /\ BleInit /\ frame = FrameIdle /\ ConnIdle /\ wire = WireIdle

Next ==
    \/ \E a \in AgentIds, h \in Handlers : register_agent(a, h)
    \/ \E a \in AgentIds : unregister_agent(a)
    \/ \E s \in SendInputs, r \in AgentIds, l \in Latencies :
          send(s.sender, r, s.message, l)
    \/ \E t \in tasks : _deliver_message(t)
    \/ Tick

Spec == Init /\ [][Next]_vars

\* the mesh used by Agent objects: every message is built by Agent.send_message
NextAgent ==
    \/ \E a \in AgentIds, h \in Handlers : register_agent(a, h)
    \/ \E a \in AgentIds : unregister_agent(a)
    \/ \E a \in AgentIds, r \in AgentIds, c \in AgentContents, l \in Latencies :
          agent_send_message(a, r, c, l)
    \/ \E t \in tasks : _deliver_message(t)
    \/ Tick

SpecAgent == Init /\ [][NextAgent]_vars

\* the mesh with a message in flight: A and B have registered with h1, and
\* send("A", "B", m) has been accepted and waits for its latency to elapse
InitInFlight ==
    /\ BleInit /\ frame = FrameIdle /\ ConnIdle /\ wire = WireIdle
    /\ agents = [a \in AgentIds |-> "h1"]
    /\ message_counter = 1
    /\ now = 0
    /\ \E l \in Latencies :
          tasks = {[sender |-> "A", receiver |-> "B",
                    message |-> [type |-> "chat", content |-> "hi"],
                    message_id |-> 0, due |-> l]}
    /\ calls = << >>
    /\ errors = {}
    /\ sent = <<[sender |-> "A", receiver |-> "B",
                 message |-> [type |-> "chat", content |-> "hi"],
                 message_id |-> 0]>>
    /\ lastReg = [a \in AgentIds |-> "register"]
    /\ lastOp = [op |-> "send", result |-> "ok"]

SpecInFlight == InitInFlight /\ [][Next]_vars

NextBLE ==
    \/ \E i \in BleIds : Construct(i)
    \/ \E i \in BleIds : Start(i)
    \/ \E i \in BleIds, t \in MessageTypes, h \in Handlers : RegisterCallback(i, t, h)
    \/ \E i \in BleIds, t \in TargetIds, m \in BleMessages : send_message(i, t, m)
    \/ Tick

SpecBLE == Init /\ [][NextBLE]_vars

\* BLEMesh objects with distinct ids are constructed and started in any
\* order, and started again
TableIds == {"A", "B", "C", "D"}

InitTables ==
    /\ MeshInit /\ frame = FrameIdle /\ ConnIdle /\ wire = WireIdle
    /\ ble_server_clients = {}
    /\ started = {}
    /\ local_agents = [i \in TableIds |-> {}]
    /\ callbacks = [i \in BleIds |-> << >>]
    /\ message_queue = [i \in BleIds |-> << >>]
    /\ ble_calls = << >>
    /\ ble_errors = << >>
    /\ ble_sends = 0

NextTables ==
    \/ \E i \in TableIds : Construct(i)
    \/ \E i \in TableIds : Start(i)
    \/ \E i \in TableIds : StartAgain(i)

SpecTables == InitTables /\ [][NextTables]_vars

InitFrame == MeshInit /\ BleInit /\ FrameInit /\ ConnIdle /\ wire = WireIdle

NextFrame ==
    \/ \E ok \in BOOLEAN : WriteChunk(ok)
    \/ Notify
    \/ NotifyWhole

SpecFrame == InitFrame /\ [][NextFrame]_vars

InitConn ==
    /\ MeshInit
    /\ frame = FrameIdle
    /\ mesh_class \in FrameImpls
    /\ IF mesh_class = "BLEMesh" THEN BleStarted ELSE BleInit
    /\ ConnStarted
    /\ wire = WireIdle

NextConn ==
    \/ \E i \in ConnSendInputs :
          mesh_class = "BLEMesh" /\ send_message(Self, i[1], i[2])
    \/ \E j \in BleIds \ {Self} :
          mesh_class = "BLEMesh" /\ send_message(j, Self, ChatData)
    \/ ProcessNext
    \/ \E ok \in BOOLEAN : SendDone(ok)
    \/ \E a \in attempts, found \in BOOLEAN : DiscoverDone(a, found)
    \/ \E a \in attempts, ok \in BOOLEAN : ConnectDone(a, ok)
    \/ \E name \in Advertisements : _detection_callback(name)
    \/ \E a \in attempts : ConnectTaskStart(a)
    \/ \E c \in DOMAIN clients : LinkLoss(c)
    \/ stop
    \/ \E item \in {stop_items[k] : k \in DOMAIN stop_items} : StopStep(item)
    \/ ScanLoopExit
    \/ ScanError
    \/ ScanRestart
    \/ \E name \in Advertisements : SimpleScanDevice(name)
    \/ \E t \in Peers, ok \in BOOLEAN : SimpleSend(t, ok)
    \/ SimpleStop
    \/ \E t \in Peers : CommSend(t, ChatHi)
    \/ CommProcessNext
    \/ \E ok \in BOOLEAN : CommSendDone(ok)
    \/ \E name \in CommAdvertisements : CommDetection(name)
    \/ \E a \in attempts : CommConnectStart(a)
    \/ \E a \in attempts, ok \in BOOLEAN : CommConnectDone(a, ok)
    \/ CommStop

SpecConn == InitConn /\ [][NextConn]_vars

InitWire == MeshInit /\ BleInit /\ frame = FrameIdle /\ WireConnected

NextWire ==
    \/ \E t \in Peers, m \in WireMessages : WireSendMessage(t, m)
    \/ \E ok \in BOOLEAN : WireProcessNext(ok)
    \/ \E t \in Peers, m \in WireMessages, ok \in BOOLEAN : WireSimpleSend(t, m, ok)
    \/ \E k \in 1..MaxEnvelopes, ok \in BOOLEAN : WireWrite(k, ok)

SpecWire == InitWire /\ [][NextWire]_vars

\* a process that runs either a MeshNetwork or one BLE instance: the
\* behaviours of Spec together with those of SpecConn
InitEither == Init \/ InitConn
NextEither == (mesh_class = "none" /\ Next) \/ NextConn
SpecEither == InitEither /\ [][NextEither]_vars

\* The event loop resumes the queue processor when it waits on a queue that
\* holds an item; nothing makes a scan, a connection attempt or a write on a
\* stalled peer come to an end.  The sleep of a scan loop that caught an error
\* ends.
FairSpecConn ==
    InitConn /\ [][NextConn]_vars /\ WF_vars(ProcessNext) /\ WF_vars(ScanRestart)

\* The event loop resumes a delivery task once its sleep has elapsed, and its
\* clock keeps advancing.
DeliverId(i) == \E t \in tasks : t.message_id = i /\ _deliver_message(t)
FairSpec ==
    /\ Init /\ [][Next]_vars
    /\ WF_vars(Tick)
    /\ \A i \in 0..(MaxSends - 1) : WF_vars(DeliverId(i))

(***************************************************************************)
(* Properties of MeshNetwork                                               *)
(***************************************************************************)
\* message i is waiting for its delivery task to run
Pending(i) == \E t \in tasks : t.message_id = i
\* a callback of the receiver of accepted send i was invoked with the
\* sender and every field of the message of that send
Delivered(i) ==
    /\ i < Len(sent)
    /\ \E k \in DOMAIN calls :
          /\ calls[k].message.message_id = i
          /\ calls[k].receiver = sent[i + 1].receiver
          /\ calls[k].callback \in Handlers
          /\ calls[k].sender = sent[i + 1].sender
          /\ \A f \in DOMAIN sent[i + 1].message :
                /\ f \in DOMAIN calls[k].message
                /\ calls[k].message[f] = sent[i + 1].message[f]
ReceiverGone(i) == i < Len(sent) /\ ~IsRegistered(sent[i + 1].receiver)

C2_DuplicateRegisterFails ==
    [][\A a \in AgentIds, h \in Handlers :
          (IsRegistered(a) /\ register_agent(a, h))
              => (lastOp'.result = "ValueError" /\ agents' = agents)]_vars
\* A is registered with h1 and a second registration has just failed
C2_Witness ==
    /\ lastOp = [op |-> "register", result |-> "ValueError"]
    /\ IsRegistered("A") /\ agents["A"] = "h1"

\* every callback invocation belongs to an accepted send
CallsComeFromSends ==
    \A k \in DOMAIN calls :
        /\ calls[k].message.message_id < Len(sent)
        /\ calls[k].receiver = sent[calls[k].message.message_id + 1].receiver

\* C3: once unregister_agent(a) has returned and a was not registered again,
\* send(x, a, m) ends with KeyError for every sender x, creates no delivery
\* task and invokes no callback; callbacks are invoked for accepted sends only.
C3_SendAfterUnregisterFails ==
    /\ [][\A a \in AgentIds, s \in SendInputs, l \in Latencies :
            (lastReg[a] = "unregister" /\ send(s.sender, a, s.message, l))
                => /\ lastOp'.result = "KeyError"
                   /\ tasks' = tasks /\ calls' = calls /\ sent' = sent]_vars
    /\ [](CallsComeFromSends)
\* a send to the unregistered A has just been rejected
C3_Witness ==
    /\ lastOp = [op |-> "send", result |-> "KeyError"]
    /\ lastReg["A"] = "unregister" /\ lastReg["B"] = "register"

\* C4: a send is accepted exactly when the last registry call that changed
\* its receiver was a registration, and rejected with KeyError otherwise.
C4_RegistryObservedAtOnce ==
    [][\A a \in AgentIds, s \in SendInputs, l \in Latencies :
          send(s.sender, a, s.message, l)
              => /\ lastOp'.result = "ok" <=> lastReg[a] = "register"
                 /\ lastOp'.result = "KeyError" <=> lastReg[a] # "register"]_vars
\* the first send, to A whose registration has returned, has just been
\* accepted while B has left the mesh
C4_Witness ==
    /\ lastOp = [op |-> "send", result |-> "ok"]
    /\ Len(sent) = 1 /\ sent[1].receiver = "A"
    /\ lastReg["A"] = "register" /\ lastReg["B"] = "unregister"

\* C5: a delivery task that finds its receiver unregistered ends without
\* invoking a callback and without an error, and leaves the agent table and
\* the other delivery tasks as they were.
C5_SilentDrop ==
    [][\A t \in tasks :
          (~IsRegistered(t.receiver) /\ _deliver_message(t))
              => /\ lastOp'.result = "dropped"
                 /\ calls' = calls /\ errors' = errors
                 /\ agents' = agents /\ tasks' = tasks \ {t}]_vars
\* message 0 was dropped and message 1 was delivered afterwards
C5_Witness ==
    /\ lastOp = [op |-> "deliver", result |-> "called"]
    /\ message_counter = 2 /\ tasks = {}
    /\ Len(calls) = 1 /\ calls[1].message.message_id = 1

\* C6: the ids of the accepted sends are strictly increasing in the order of
\* the calls, and no two pending tasks or invocations carry the same id.
C6_MessageIdsIncrease ==
    /\ \A i, j \in DOMAIN sent : i < j => sent[i].message_id < sent[j].message_id
    /\ \A i \in DOMAIN sent : sent[i].message_id < message_counter
    /\ \A t, u \in tasks : t.message_id = u.message_id => t = u
\* two sends were accepted while the first message was still in flight
C6_Witness ==
    /\ Len(sent) = 2 /\ Cardinality(tasks) = 2
    /\ sent[1].message_id = 0 /\ sent[2].message_id = 1

\* C7: whenever a delivery task has just invoked a callback for an id, the
\* last registry call that changed the id is a registration, and the callback
\* invoked is the one that registration stored: a callback is not invoked
\* once the unregistration of its id has returned.
C7_NoCallAfterUnregister ==
    (lastOp.op = "deliver" /\ lastOp.result = "called")
        => LET c == calls[Len(calls)] IN
           /\ lastReg[c.receiver] = "register"
           /\ IsRegistered(c.receiver)
           /\ agents[c.receiver] = c.callback
\* B was unregistered while the only message to it was in flight, the
\* delivery task has run and no callback was invoked
C7_Witness ==
    /\ lastOp = [op |-> "deliver", result |-> "dropped"]
    /\ lastReg["B"] = "unregister"
    /\ Len(sent) = 1 /\ sent[1].receiver = "B"
    /\ Len(calls) = 0 /\ tasks = {}

\* A has just sent ChatHi to B, both BLEMesh objects of this process, B in
\* A's local table and B holding a callback for "chat"
LocalChatHiSent ==
    /\ lastOp.op = "send_message"
    /\ lastOp.from = "A" /\ lastOp.target = "B" /\ lastOp.message = ChatHi
    /\ "B" \in local_agents["A"]
    /\ "chat" \in DOMAIN callbacks["B"]

\* C8 (as stated): when A and B are served by the same process, A's send of
\* {type: "chat", content: "hi"} to B makes B's handler receive exactly
\* ("A", {type: "chat", content: "hi"}), and nothing is put on the outbound
\* queue.  The code reads message['data'] for the handler's argument, the
\* payload has no such key, and the handler is never invoked.
C8_LocalSendReachesHandler ==
    LocalChatHiSent =>
        /\ ble_calls # << >>
        /\ ble_calls[Len(ble_calls)] =
               [inst |-> "B", callback |-> callbacks["B"]["chat"],
                sender |-> "A", payload |-> ChatHi]
        /\ \A k \in DOMAIN message_queue["A"] : message_queue["A"][k][1] # "B"

\* the receiver can resolve the sender and has a callback for the message's
\* type; every chunk written has been fed to it
AllChunksFed ==
    /\ frame.impl \in FrameImpls
    /\ frame.status = "sent"
    /\ frame.fed = Len(frame.written)
    /\ frame.rxKnows
    /\ frame.rxTypes = ReceiverTypes

\* C9 (as stated): for a payload whose serialized size exceeds the MTU, the
\* chunks written by the sender, fed in order to the receiver's notification
\* handler, deliver the payload once, identical to what was sent.  The
\* handlers decode every chunk on its own and keep no buffer.
C9_ChunkRoundTrip ==
    (AllChunksFed /\ Len(frame.bytes) > Mtu) =>
        /\ Len(frame.calls) = 1
        /\ frame.calls[1].payload = frame.message

\* C10: the chunks written are non-empty and at most 20 bytes, every chunk but
\* the last is exactly 20 bytes, the chunks in write order are a prefix of
\* the serialized text, and all of it once the loop has finished
C10_FixedSizeSlicing ==
    frame.impl \in FrameImpls =>
        /\ \A k \in DOMAIN frame.written :
               /\ Len(frame.written[k]) >= 1
               /\ Len(frame.written[k]) <= Mtu
               /\ (k < Len(frame.written) \/ frame.status = "writing")
                      => Len(frame.written[k]) = Mtu
        /\ Len(Concat(frame.written)) <= Len(frame.bytes)
        /\ Concat(frame.written) =
               SubSeq(frame.bytes, 1, Len(Concat(frame.written)))
        /\ frame.status = "sent" =>
               /\ frame.written # << >>
               /\ Concat(frame.written) = frame.bytes

\* an envelope written in several chunks, the last one short
C10_Witness ==
    /\ frame.impl = "BLEMesh"
    /\ frame.status = "sent"
    /\ Len(frame.written) >= 2
    /\ Len(frame.written[Len(frame.written)]) < Mtu

\* C11: the chunks of one envelope are written in increasing offset order,
\* one write at a time: every write appends to what was written before it the
\* slice that starts where the previous write ended, and moves the offset
\* forward; no chunk is written before an earlier chunk of the envelope
C11_ChunksInOrder ==
    [][(frame.impl \in FrameImpls /\ frame'.written # frame.written) =>
          /\ frame.offset = Len(frame.written) * Mtu
          /\ frame'.written =
                 Append(frame.written,
                        SubSeq(frame.bytes, frame.offset + 1,
                               IF frame.offset + Mtu < Len(frame.bytes)
                               THEN frame.offset + Mtu ELSE Len(frame.bytes)))
          /\ frame'.offset > frame.offset
          /\ frame'.bytes = frame.bytes]_vars

\* three chunks written and the loop still running
C11_Witness ==
    /\ frame.impl \in FrameImpls
    /\ frame.status = "writing"
    /\ Len(frame.written) = 3

(***************************************************************************)
(* Properties of the connections                                           *)
(***************************************************************************)
\* the scan, connection attempt or write the last step began, if any
LastEvents == IF "event" \in DOMAIN lastOp THEN lastOp.event ELSE {}

\* C12 (as stated): a failure while writing an envelope to a connected peer
\* is followed by exactly one retry of the whole envelope, and a second
\* failure surfaces DeliveryFailed.  The queue processors write an envelope
\* once: BLEMesh reconnects and takes the next item, BLECommunicator clears
\* connected and takes the next item.
C12_FailedWriteRetriedOnce ==
    mesh_class \in {"BLEMesh", "BLECommunicator"} =>
        \A k \in DOMAIN fates :
            fates[k].failures >= 1 =>
                /\ fates[k].tries = 2
                /\ fates[k].outcome = "send_failed" =>
                       fates[k].surfaced = "DeliveryFailed"

\* C13 (as stated): an envelope for a remote recipient that cannot be reached
\* ends in DeliveryFailed reported to the caller of send, never in a silent
\* discard.  The code prints or logs a line, or does nothing, and
\* send_message has returned long before.
C13_UnreachableIsReported ==
    \A k \in DOMAIN fates :
        fates[k].outcome = "unreachable" => fates[k].surfaced = "DeliveryFailed"

\* the queue processor is at work for the peer
Busy(peer_id) == proc.pc # "get" /\ proc.target = peer_id

C15_OneAttemptPerPeer ==
    \A p \in Peers :
        Cardinality({a \in attempts :
                        a.peer = p /\ a.stage \in {"scan", "connect"}}) <= 1

\* C16 (as stated): a connection attempt to a peer is started only when a
\* submitted message addressed to it is pending.  BLEMesh keeps to it;
\* the scan loop of SimpleBLEMesh and the detection callback of
\* BLECommunicator dial every peer they discover.
C16_LazyConnection ==
    \A e \in LastEvents : e.kind \in {"scan", "connect"} => e.pending

\* C17: discovery never starts a connection for the instance's own
\* advertisement, for a peer that is connected, or for a peer served
\* in-process, and the connection tasks it creates are never for the
\* instance itself or for an in-process peer
C17_DiscoveryFilters ==
    /\ \A e \in LastEvents :
           (e.by = "detect" /\ e.kind = "connect") =>
               ~e.own /\ ~e.already /\ ~e.local
    /\ \A a \in attempts :
           a.by = "detect" => a.peer # Self /\ a.peer \notin local_agents[Self]

\* a connection started from an advertisement while another peer is connected
\* and an envelope for the in-process peer is on the queue
C17_Witness ==
    \E e \in LastEvents :
        /\ e.by = "detect" /\ e.kind = "connect"
        /\ mesh_class = "BLEMesh"
        /\ connected_devices # << >>
        /\ QueueHas("B")

\* C18 (as stated): no envelope for a target of the local-agent table is put
\* on the outbound queue, and no scan or connection attempt is started for
\* it.  A message whose type is not hashable makes the local call raise
\* outside its try; send_message prints and goes on to queue the envelope,
\* and the queue processor scans for the in-process peer.
C18_LocalNeverDialed ==
    mesh_class = "BLEMesh" =>
        /\ \A k \in DOMAIN message_queue[Self] :
               message_queue[Self][k][1] \notin local_agents[Self]
        /\ \A e \in LastEvents : ~e.local

\* C19 (as stated): once stop() has returned the connection table is empty
\* and every client is disconnected, and this stays so.  A connection
\* attempt in flight when stop() runs stores its client afterwards, the
\* queue processor goes on connecting, SimpleBLEMesh keeps its entries.
C19_StopLeavesNoConnection ==
    stop_pc = "returned" =>
        /\ DOMAIN connected_devices = {}
        /\ \A c \in DOMAIN clients : ~clients[c].is_connected

\* C20 (as stated): after stop() has returned no scan is started, no
\* connection attempt is started and no chunk is written.  stop() cancels no
\* task: the queue processor goes on taking envelopes, scanning, connecting
\* and writing.
C20_StopCancelsTasks ==
    \A e \in LastEvents : ~e.afterStop

(***************************************************************************)
(* Properties of the message copy handed to a callback                     *)
(***************************************************************************)
\* the dictionary the caller handed to the send that call k delivers
CallerMessage(k) == sent[calls[k].message.message_id + 1].message

\* C26: the timestamp a callback sees is the clock value of the moment send
\* was called, not the clock value of the moment the delayed delivery ran.
C26_TimestampIsSendTime ==
    \A k \in DOMAIN calls :
        calls[k].message.timestamp = CallerMessage(k).timestamp

\* C27: the message a callback receives has every top-level field of the
\* caller's message with the caller's value, and besides those only
\* message_id and timestamp.
C27_PayloadKeepsCallerFields ==
    \A k \in DOMAIN calls :
        /\ DOMAIN calls[k].message =
               DOMAIN CallerMessage(k) \cup {"message_id", "timestamp"}
        /\ \A f \in DOMAIN CallerMessage(k) :
               calls[k].message[f] = CallerMessage(k)[f]

(***************************************************************************)
(* Properties of the receiver's dispatch                                   *)
(***************************************************************************)
\* C22: a notification whose bytes are not a complete message never makes
\* BLEMesh or SimpleBLEMesh invoke a handler with a part of the message:
\* every payload a handler is invoked with is the message that was sent.
C22_NoPartialDispatch ==
    frame.impl \in {"BLEMesh", "SimpleBLEMesh"} =>
        \A k \in DOMAIN frame.calls : frame.calls[k].payload = frame.message

\* C23: a message that arrives complete at a receiver with a handler for its
\* type is dispatched: the handler is invoked exactly once with the sender
\* and the message, and not at all when the sender cannot be resolved.
C23_CompleteEnvelopeDispatched ==
    (/\ frame.impl \in {"BLEMesh", "SimpleBLEMesh"}
     /\ frame.status = "arrived"
     /\ frame.rxTypes = ReceiverTypes) =>
        frame.calls = IF frame.rxKnows
                      THEN <<[sender |-> Str(frame.sender),
                              payload |-> frame.message]>>
                      ELSE << >>

(***************************************************************************)
(* Properties of scanning, reconnection, routing and stop()                *)
(***************************************************************************)
\* C21: a scan that fails is not fatal: after a scan error, while the
\* instance has not been stopped, the scan loop scans again.
C21_ScanErrorNotFatal ==
    (lastOp.op = "scan_error" /\ scanning /\ stop_pc = "none")
        ~> (scanner_active \/ ~scanning \/ stop_pc # "none")

\* an advertisement of the peer makes the instance dial it (ble_mesh.py
\* 220-243, simple_ble_mesh.py 71-75)
AdvertDials(peer_id) ==
    CASE mesh_class = "BLEMesh" -> DetectionConnects(MeshName(peer_id))
      [] mesh_class = "SimpleBLEMesh" -> SimpleScanConnects(MeshName(peer_id))
      [] OTHER -> FALSE
\* a send_message for the peer makes the instance dial it: the BLEMesh queue
\* processor calls _connect_to_peer for a target that is not connected
\* (ble_mesh.py 143-156); SimpleBLEMesh.send_message never connects
\* (simple_ble_mesh.py 48-61)
SendDials(peer_id) ==
    CASE mesh_class = "BLEMesh" -> ~IsConnected(peer_id)
      [] OTHER -> FALSE

\* C24: a peer whose link is down does not stay in the connection table with
\* every later advertisement and every later send for it skipped: while the
\* instance runs, an advertisement of the peer or a send to it dials again.
C24_DownPeerCanReconnect ==
    stop_pc = "none" =>
        \A p \in Peers : LinkDown(p) => (AdvertDials(p) \/ SendDials(p))

\* C25: the chunks of an envelope addressed to T are written on the
\* connection whose peer is T: the client the queue processor writes on is
\* connected to the target of the envelope it holds.
C25_WrittenOnTargetConnection ==
    proc.pc = "sending" => clients[proc.client].peer = proc.target

\* C28: once stop() of an instance has returned, no other instance of the
\* process has it in its local-agent table, and no send_message of another
\* instance reaches its handler.
C28_StoppedInstanceUnreachable ==
    (mesh_class = "BLEMesh" /\ stop_pc = "returned") =>
        /\ \A j \in BleIds \ {Self} : Self \notin local_agents[j]
        /\ ~(/\ lastOp.op = "send_message"
              /\ "target" \in DOMAIN lastOp
              /\ lastOp.target = Self
              /\ lastOp.result = "local")

(***************************************************************************)
(* Properties of the chunks on a connection                                *)
(***************************************************************************)
\* C29: the chunks of two envelopes are never interleaved on one connection:
\* between two chunks of an envelope, the connection carries chunks of that
\* envelope only.
C29_ChunksNotInterleaved ==
    mesh_class \in WireClasses /\ wire # WireIdle =>
        \A c \in DOMAIN wire.log :
            \A i, j, l \in DOMAIN wire.log[c] :
                (i < j /\ j < l /\ wire.log[c][i][1] = wire.log[c][l][1])
                    => wire.log[c][j][1] = wire.log[c][i][1]

\* C30: two envelopes BLEMesh.send_message accepted for the same peer are
\* processed in the order of the calls: the write of the later one does not
\* begin before the write of the earlier one has ended, in success or in
\* failure.
C30_SubmissionOrder ==
    mesh_class = "BLEMesh" /\ wire # WireIdle =>
        \A i, j \in DOMAIN wire.envs :
            (/\ i < j
             /\ wire.envs[i].target = wire.envs[j].target
             /\ wire.status[j] # "queued")
                => wire.status[i] \in {"sent", "failed"}
\* the second of two envelopes for the same peer is being written, after
\* every chunk of the first one
C30_Witness ==
    /\ mesh_class = "BLEMesh"
    /\ wire # WireIdle
    /\ Len(wire.envs) = 2
    /\ wire.envs[1].target = wire.envs[2].target
    /\ wire.status[1] = "sent"
    /\ wire.status[2] = "writing"
    /\ Len(wire.log[wire.envs[2].client]) >= 6

(***************************************************************************)
(* Properties of both transports                                           *)
(***************************************************************************)
\* the callback invocations made for the message of accepted send i
CallsOf(i) == {k \in DOMAIN calls : calls[k].message.message_id = i}
\* the delivery tasks that hold the message of accepted send i
TasksOf(i) == {t \in tasks : t.message_id = i}

C32_DeliveredToCurrentHandler ==
    [][\A t \in tasks :
          _deliver_message(t) =>
              IF IsRegistered(t.receiver)
              THEN /\ Len(calls') = Len(calls) + 1
                   /\ SubSeq(calls', 1, Len(calls)) = calls
                   /\ calls'[Len(calls')].callback = agents[t.receiver]
                   /\ calls'[Len(calls')].receiver = t.receiver
                   /\ calls'[Len(calls')].message.message_id = t.message_id
              ELSE calls' = calls]_vars
\* the message that was sent while B was registered with h1 has been handed
\* to h2, which was registered under B while the message was in flight
C32_Witness ==
    /\ sent[1].receiver = "B"
    /\ \E k \in DOMAIN calls :
           /\ calls[k].message.message_id = 0
           /\ calls[k].receiver = "B"
           /\ calls[k].callback = "h2"
    /\ \A k \in DOMAIN calls :
           calls[k].message.message_id = 0 => calls[k].callback # "h1"

\* what a rejected call must leave alone: the agent table, the counter, the
\* delivery tasks and the invocations made
MeshUnchanged ==
    /\ agents' = agents
    /\ message_counter' = message_counter
    /\ tasks' = tasks
    /\ calls' = calls

\* C33: a rejected operation leaves the state of the mesh unchanged: a send
\* to an id that is not registered ends with KeyError, takes no message id
\* and creates no task; a registration of a registered id ends with
\* ValueError and changes no callback; unregister_agent of an absent id
\* changes nothing in the agent table.
C33_RejectedLeavesState ==
    [][/\ \A r \in AgentIds, s \in SendInputs, l \in Latencies :
             (~IsRegistered(r) /\ send(s.sender, r, s.message, l))
                 => (lastOp'.result = "KeyError" /\ MeshUnchanged)
       /\ \A a \in AgentIds, h \in Handlers :
             (IsRegistered(a) /\ register_agent(a, h))
                 => (lastOp'.result = "ValueError" /\ MeshUnchanged)
       /\ \A a \in AgentIds :
             (~IsRegistered(a) /\ unregister_agent(a)) => MeshUnchanged]_vars
\* a send to an absent id has just been rejected while an accepted message
\* is in flight: the counter stands at 1 and the one task is still there
C33_Witness ==
    /\ lastOp = [op |-> "send", result |-> "KeyError"]
    /\ message_counter = 1
    /\ Cardinality(tasks) = 1
    /\ ~IsRegistered("A") /\ IsRegistered("B")

(***************************************************************************)
(* Properties of callbacks that raise                                      *)
(***************************************************************************)
\* C34: an error raised by a receiver's callback is contained.  In
\* MeshNetwork the delivery task that made the call ends, and the agent
\* table, the counter and every other delivery task are as before.  In
\* BLEMesh the send_message call that took the in-process route returns as
\* for a callback that does not raise: nothing is queued, and the callbacks
\* and the local-agent tables are as before.
C34_HandlerErrorContained ==
    [][/\ \A t \in tasks :
             (_deliver_message(t) /\ Raises(DeliveryCallback(t)))
                 => /\ lastOp'.result = "called"
                    /\ agents' = agents
                    /\ message_counter' = message_counter
                    /\ tasks' = tasks \ {t}
       /\ \A j \in BleIds \ {Self} :
             (/\ mesh_class = "BLEMesh"
              /\ Raises(callbacks[Self]["chat"])
              /\ send_message(j, Self, ChatData))
                 => /\ lastOp'.result = "local"
                    /\ message_queue' = message_queue
                    /\ callbacks' = callbacks
                    /\ local_agents' = local_agents
                    /\ Len(ble_calls') = Len(ble_calls) + 1]_vars
\* the callback of A has raised for a first message of B, and a second
\* message of B has reached it all the same
C34_Witness ==
    /\ mesh_class = "BLEMesh"
    /\ lastOp.op = "send_message" /\ lastOp.result = "local"
    /\ Len(ble_calls) = 2
    /\ \A k \in DOMAIN ble_calls :
           ble_calls[k].inst = Self /\ Raises(ble_calls[k].callback)
    /\ Len(ble_errors) = 2
    /\ message_queue[Self] = << >> /\ message_queue["B"] = << >>

(***************************************************************************)
(* Properties of stop() among the other tasks                              *)
(***************************************************************************)
\* C35 (as stated): BLEMesh.stop() does not raise: while it is suspended in
\* disconnect() of a peer, no other task removes the entry of that peer, so
\* that the del of stop() finds it.
C35_StopDoesNotRaise ==
    stop_pc # "raised"

(***************************************************************************)
(* Properties of the fields of BLECommunicator                             *)
(***************************************************************************)
\* C36: in BLECommunicator, whenever connected is true, client is not None
\* and no connection task is still waiting for connect() of that client;
\* when connected becomes true the link of client is up; and while
\* connected stays true client stays the same client.  This holds also
\* when several advertisements were detected before the first connection
\* attempt was over.
C36_ConnectedHasClient ==
    /\ [](comm.connected =>
             /\ comm.client # 0
             /\ \A a \in attempts :
                    a.stage = "connect" => a.client # comm.client)
    /\ [][/\ (~comm.connected /\ comm'.connected) =>
                 (comm'.client # 0 /\ clients'[comm'.client].is_connected)
          /\ (comm.connected /\ comm'.connected) =>
                 comm'.client = comm.client]_vars
\* two advertisements were detected, two connection tasks have dialed, the
\* connect() of the first client has returned after the field was
\* overwritten, and the instance is connected with the second client
C36_Witness ==
    /\ mesh_class = "BLECommunicator"
    /\ detections = 2
    /\ Len(clients) = 2
    /\ clients[1].is_connected /\ clients[2].is_connected
    /\ attempts = {}
    /\ comm.connected /\ comm.client = 2
    /\ stop_pc = "none"

(***************************************************************************)
(* Properties of the tables of in-process agents                           *)
(***************************************************************************)
\* the tables are symmetric and no table holds the id of its owner
TablesSymmetric ==
    \A a, b \in DOMAIN local_agents :
        /\ a \notin local_agents[a]
        /\ a \in local_agents[b] <=> b \in local_agents[a]

\* start() of instance i, called for the first time or again
Starts(i) == Start(i) \/ StartAgain(i)

\* C37 (amended): the tables of BLEMesh instances with distinct ids are
\* symmetric and never hold the id of their owner; no entry is ever removed;
\* and once one of two instances has started after both were constructed,
\* each is in the table of the other.
C37_TablesSymmetric ==
    /\ []TablesSymmetric
    /\ [][\A a, b \in DOMAIN local_agents :
             /\ local_agents[a] \subseteq local_agents'[a]
             /\ (a # b /\ {a, b} \subseteq ble_server_clients
                       /\ (Starts(a) \/ Starts(b)))
                    => (a \in local_agents'[b] /\ b \in local_agents'[a])]_vars
\* A and B were constructed and neither has started; C has started, so
\* both know C and C knows both, and A and B do not know each other
C37_Witness ==
    /\ ble_server_clients = {"A", "B", "C"}
    /\ started = {"C"}
    /\ local_agents["C"] = {"A", "B"}
    /\ local_agents["A"] = {"C"} /\ local_agents["B"] = {"C"}
\* C37 (as stated): the tables are symmetric and without the id of their
\* owner, and once any instance has started after two instances were
\* constructed, each of the two is in the table of the other.
C37_AnyStartFillsTables ==
    /\ []TablesSymmetric
    /\ [][\A a, b, i \in DOMAIN local_agents :
             (a # b /\ {a, b} \subseteq ble_server_clients /\ Starts(i))
                 => (a \in local_agents'[b] /\ b \in local_agents'[a])]_vars

====
